----------------------------- MODULE MCSeckill -----------------------------
(* Small instances of Seckill.  Every bound is a constant of the cfg files. *)
EXTENDS SeckillInv, TLC

CONSTANTS
    Scarce,   \* the voucher with less stock than there are users
    ScarceStock, OtherStock

MCStock == [v \in Vouchers |-> IF v = Scarce THEN ScarceStock ELSE OtherStock]

\* Safety runs only: users and instances are interchangeable.
Symmetry == Permutations(Users) \cup Permutations(Instances)

=============================================================================
