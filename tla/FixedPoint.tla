------------------------------ MODULE FixedPoint ------------------------------
(***************************************************************************)
(* The arithmetic of the signals of hardware/*.vhd.  A signed signal of w  *)
(* bits is a number of Signed(h), h = 2^(w-1) its full scale, and an       *)
(* unsigned coefficient of w bits one of 0 .. 2*h - 1: the fraction        *)
(* coef / (2*h) of one.                                                    *)
(***************************************************************************)
EXTENDS Integers

Signed(h) == -h .. h - 1

Coef(h) == 0 .. 2 * h - 1

(* A sum of signed operands is kept to the length of the longer one. *)
Wrap(v, h) == IF v \in Signed(h) THEN v ELSE ((v + h) % (2 * h)) - h

(* resize of numeric_std to fewer bits: the sign and the low bits stay. *)
Resize(v, h) ==
  IF v \in Signed(h) THEN v ELSE IF v >= 0 THEN v % h ELSE (v % h) - h

(* The division by 2 of numeric_std truncates towards zero. *)
Half(v) == IF v >= 0 THEN v \div 2 ELSE -((-v) \div 2)

(* coefMult.vhd: the product without its w low bits. *)
coefMult(dataIN, coef, h) == Resize((dataIN * coef) \div (2 * h), h)

(* not(coef) *)
Complement(coef, h) == 2 * h - 1 - coef

(* Two signals weighted by a coefficient and its complement, as the sum of *)
(* LPF.vhd and the mix of reverbFPGA.vhd weight them.                      *)
BlendSum(a, b, coef, h) ==
  coefMult(a, Complement(coef, h), h) + coefMult(b, coef, h)

=============================================================================
