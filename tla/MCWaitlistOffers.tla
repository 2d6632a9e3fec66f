-------------------------- MODULE MCWaitlistOffers --------------------------
\* Small salons for TLC: which slots exist and which of them a request wants.
EXTENDS WaitlistOffers, TLC

CONSTANTS m1, m2, r1, r2, b1, b2

At(m, from, to) == [master |-> m, from |-> from, to |-> to]

NoSlots == {}
FirstHour == {At(m1, 0, 1)}
WholeDay == {At(m1, 0, 2)}
TwoMasters == {At(m1, 0, 1), At(m2, 0, 1)}
TwoLengths == {At(m1, 0, 1), At(m1, 0, 2)}

OneWantsFirst == r1 :> FirstHour
BothWantFirst == r1 :> FirstHour @@ r2 :> FirstHour

Visits == Permutations({b1, b2})
=============================================================================
