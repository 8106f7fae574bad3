--------------------------- MODULE MCAttachments ---------------------------
(* Two workstations, documents and vouchers. *)
EXTENDS Attachments, TLC

CONSTANTS s1, s2, d1, d2, v1, v2

MCWorkstation == {s1, s2}
MCDocument == {d1, d2}
MCVoucher == {v1, v2}
Symmetry == Permutations(MCWorkstation) \cup Permutations(MCVoucher)
=============================================================================
