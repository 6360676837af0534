------------------------ MODULE MCSeatReservation ------------------------
EXTENDS SeatReservation, TLC

\* Seats, users, locks and requests are interchangeable.
Symmetry == Permutations(Seats) \cup Permutations(Users) \cup Permutations(Locks)
              \cup Permutations(Reqs) \cup Permutations(Jobs)
=============================================================================
