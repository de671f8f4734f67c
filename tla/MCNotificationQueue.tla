------------------------ MODULE MCNotificationQueue ------------------------
(* Small instances of NotificationQueue for TLC. *)
EXTENDS NotificationQueue

(* Jobs of a kind and workers are interchangeable. *)
Symmetry == Permutations(Reminders) \cup Permutations(Events) \cup Permutations(Workers)

=============================================================================
