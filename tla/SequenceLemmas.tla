--------------------------- MODULE SequenceLemmas ---------------------------
(* Facts about sequences that the proofs of several modules use.           *)
EXTENDS SequenceTheorems, TLAPS

(* A function on 1 .. n is a sequence of length n.                         *)
LEMMA FunctionIsSeq ==
  ASSUME NEW S, NEW n \in Nat, NEW f \in [1 .. n -> S]
  PROVE  f \in Seq(S) /\ Len(f) = n
<1>1. f \in Seq(S)
  BY SeqDef
<1>2. Len(f) \in Nat /\ DOMAIN f = 1 .. Len(f)
  BY <1>1, LenProperties
<1>3. DOMAIN f = 1 .. n
  OBVIOUS
<1>4. QED BY <1>1, <1>2, <1>3

(* Concatenation of sequences of numbers is associative.                   *)
LEMMA ConcatNat ==
  ASSUME NEW a \in Seq(Nat), NEW b \in Seq(Nat), NEW c \in Seq(Nat)
  PROVE  (a \o b) \o c = a \o (b \o c)
  BY ConcatAssociative

(* An element may be appended before or after.                             *)
LEMMA ConcatAppend ==
  ASSUME NEW a \in Seq(Nat), NEW b \in Seq(Nat), NEW n \in Nat
  PROVE  a \o Append(b, n) = Append(a \o b, n)
<1>1. /\ Append(b, n) = b \o <<n>> /\ <<n>> \in Seq(Nat)
      /\ a \o b \in Seq(Nat)
  BY AppendIsConcat, ConcatProperties
<1>2. (a \o b) \o <<n>> = a \o (b \o <<n>>)
  BY <1>1, ConcatNat
<1>3. Append(a \o b, n) = (a \o b) \o <<n>>
  BY <1>1, AppendIsConcat
<1>4. QED BY <1>1, <1>2, <1>3
=============================================================================
