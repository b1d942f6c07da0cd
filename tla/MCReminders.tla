----------------------------- MODULE MCReminders -----------------------------
(* Every history of a reminder that is created in block 1 or 2 and goes on  *)
(* with updates, messages and a release in the blocks above it.             *)
EXTENDS Reminders

Later == {Nothing, Message, Released, Update(3, 1, 0), Update(1, 0, 1), Update(2, 0, 0)}

MCHistories ==
  UNION {{h \in [Blocks -> Later \cup {Create(2)}] :
            /\ h[c] = Create(2)
            /\ \A n \in Blocks : n < c => h[n] = Nothing
            /\ \A n \in Blocks : n > c => h[n] \in Later} : c \in {1, 2}}
==============================================================================
