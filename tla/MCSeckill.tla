----------------------------- MODULE MCSeckill -----------------------------
EXTENDS SeckillProperties, TLC

OneEach == [v \in Vouchers |-> 1]
TwoEach == [v \in Vouchers |-> 2]

Symmetry == Permutations(Users) \cup Permutations(Vouchers)
            \cup Permutations(Requests) \cup Permutations(Instances)
=============================================================================
