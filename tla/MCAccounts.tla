----------------------------- MODULE MCAccounts -----------------------------
(***************************************************************************)
(* Small instances of RefreshTokens and Membership for one run of TLC.     *)
(* Neither reads what the other writes, so each behaviour takes steps of   *)
(* one of them.                                                            *)
(***************************************************************************)
EXTENDS RefreshTokens, Membership, TLC

VARIABLE part  \* the part that takes steps

AccountsInit == TokensInit /\ MemberInit /\ part \in {"tokens", "members"}

AccountsNext ==
  /\ UNCHANGED part
  /\ \/ part = "tokens"  /\ TokensNext /\ UNCHANGED memberVars
     \/ part = "members" /\ MemberNext /\ UNCHANGED tokenVars

AccountsSpec == AccountsInit /\ [][AccountsNext]_<<part, tokenVars, memberVars>>

(* The columns and locals of both keep their types; one account per e-mail. *)
AccountsTypeOK == TokensTypeOK /\ MemberTypeOK

(* Ids, tokens and the requests that use them are interchangeable. *)
Symmetry == Permutations(UserIds) \cup Permutations(Tokens) \cup Permutations(Calls)

=============================================================================
