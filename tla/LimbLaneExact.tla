--------------------------- MODULE LimbLaneExact ---------------------------
(***************************************************************************)
(* LimbLane computes what Edwards computes on residues: its formulas,      *)
(* chains and comparisons against their definitions.  The modulus is too   *)
(* large to multiply residues with, so they are compared modulo factors of *)
(* it.                                                                     *)
(***************************************************************************)
EXTENDS LimbLane, FiniteSets

CONSTANTS Factors,  \* coprime factors of the modulus
          Loose     \* values as a reduction may leave them

\* The residue of a value, limb by limb
Residue(a, m) == LET above[i \in 1..6] == IF i = 6 THEN 0 ELSE (above[i + 1] * RADIX + a[i]) % m
                 IN  above[1]

Modulus == <<RADIX - FOLD, RADIX - 1, RADIX - 1, RADIX - 1, RADIX - 1>>

ASSUME ExactAssumption ==
    /\ Factors \subseteq Nat \ {0, 1}
    /\ \A m \in Factors : /\ Residue(Modulus, m) = 0
                          /\ Residue(TWO_D, m) = (2 * Residue(D, m)) % m
    /\ \A v \in Loose : v \in Vector /\ InRegisters(v)

\* The arithmetic modulo m, in which the curve's own group order plays no part
Mod(m) == INSTANCE Edwards WITH FIELD_P <- m, CURVE_D <- Residue(D, m), L <- 2

\* The residues of a point, or of an entry of a table
ResiduesOf(p, m) == [c \in DOMAIN p |-> Residue(p[c], m)]

Opposite(p, m) == [p EXCEPT !.x = Mod(m)!Negated(@), !.t = Mod(m)!Negated(@)]

\* The formula of Edwards for the one at hand
ExpectedResult(m) ==
    LET left  == ResiduesOf(formula.left, m)
        right == ResiduesOf(formula.right, m)
        kind  == formula.kind
    IN  CASE kind = "double"       -> Mod(m)!DoubleImpl(left, formula.computeT, FALSE)
          [] kind = "doubleAffine" -> Mod(m)!DoubleImpl(left, formula.computeT, TRUE)
          [] kind = "add"          -> Mod(m)!Add(left, right)
          [] kind = "addAffine"    -> Mod(m)!AddAffineRhs(left, right)
          [] kind = "addCached"    -> Mod(m)!AddCached(left, right, formula.computeT)
          [] kind = "torsion"      -> Mod(m)!AddAffineRhs(left, Opposite(right, m))
          [] kind = "torsionProduct" -> Mod(m)!DoubleImpl(left, TRUE, TRUE)

\* Every formula yields the point that the same formula yields on residues, so
\* that no limb was truncated, no carry lost and no product missed anywhere in
\* it.  The torsion check computes two coordinates of the difference, and the T
\* of twice it.
FormulasExact ==
    phase = "result" =>
        \A m \in Factors : \A c \in CASE formula.kind = "torsion" -> {"x", "y"}
                                      [] formula.kind = "torsionProduct" -> {"t"}
                                      [] OTHER -> {"x", "y", "z", "t"} :
            Residue(Result[c], m) = ExpectedResult(m)[c]

\* The bits of the exponent of each power of a chain.  No two powers that are
\* multiplied have a bit in common.
ExponentBits(steps) ==
    LET bits[n \in 1..(Len(steps) + 1)] ==
            IF n = 1 THEN {0}
            ELSE LET step == steps[n - 1]
                 IN  {i + step.times : i \in bits[step.of]}
                       \cup (IF step.by = 0 THEN {} ELSE bits[step.by])
    IN  bits

HasNoCarry(steps) ==
    \A n \in DOMAIN steps :
        steps[n].by = 0 \/ {i + steps[n].times : i \in ExponentBits(steps)[steps[n].of]}
                               \cap ExponentBits(steps)[steps[n].by] = {}

\* (p - 5) / 8 and p - 2 of the code's p, which the chains are written for
PowBits    == {0} \cup 2..251
InvertBits == {0, 1, 3} \cup 5..254

\* Squared so many times
SquaredTimes(a, times, m) ==
    LET squared[n \in 0..times] == IF n = 0 THEN a
                                   ELSE LET before == squared[n - 1] IN (before * before) % m
    IN  squared[times]

\* A chain ends with the power it is meant for, although all squarings of a row
\* but the last leave their result loose: the exponent is right bit by bit, and
\* every power is the one its step says.
ChainsExact ==
    stage \in {"power", "invert"} /\ IsDone(chain) =>
        /\ ExponentBits(chain.steps)[Len(chain.powers)] = IF stage = "power" THEN PowBits ELSE InvertBits
        /\ HasNoCarry(chain.steps)
        /\ \A n \in DOMAIN chain.steps, m \in Factors :
               LET step  == chain.steps[n]
                   power == [k \in DOMAIN chain.powers |-> Residue(chain.powers[k], m)]
               IN  power[n + 1] = (SquaredTimes(power[step.of], step.times, m)
                                     * (IF step.by = 0 THEN 1 ELSE power[step.by])) % m

-----------------------------------------------------------------------------
\* A canonical value is below p in every limb
IsCanonical(a) == /\ \A i \in Limb : a[i] \in 0..(RADIX - 1)
                  /\ a[1] < RADIX - FOLD \/ \E i \in 2..5 : a[i] < RADIX - 1

\* What the next step brings into canonical form
Examined == IF stage = "power" /\ IsDone(chain)
            THEN {FirstRoot, Subtract(VX2, setup.u), AddLoose(VX2, setup.u)}
            ELSE IF stage = "invert" /\ IsDone(chain)
            THEN {Multiply(acc.x, chain.out), Multiply(acc.y, chain.out)}
            ELSE IF stage = "compare" THEN {Subtract(acc.x, Multiply(multiples[1].x, acc.z))}
            ELSE IF stage = "torsion" /\ phase = "result" THEN {Result.t}
            ELSE IF stage = "setup" THEN Loose
            ELSE {}

\* The canonical form is the one below p of the value it is taken of, whichever
\* of its representations a reduction left: two passes carry far enough, and p
\* is taken off exactly when it has to be.
CanonicalExact ==
    \A v \in Examined : /\ IsCanonical(Canonical(v))
                        /\ \A m \in Factors : Residue(Canonical(v), m) = Residue(v, m)

Bytes == INSTANCE FieldBytes

\* What decoding and compression do to the bytes of an encoding: every limb of y
\* holds the bits that belong to it, the sign none of them, and the words of a
\* canonical y are its limbs without a gap or an overlap, the top bit left free
\* for the sign.
BytesExact ==
    /\ stage = "setup" => \A i \in 0..4 : Bytes!LimbsOfBytes[i + 1] = Bytes!FieldLimb(i)
    /\ stage = "smallOrder" =>
         \A w \in 0..3 : Bytes!Packed[w + 1] = Bytes!Bits(64 * w, IF w = 3 THEN 63 ELSE 64)

\* The comparison with a decoded R says what the residues say, and a ladder
\* that only adds the point that stands in for R is found to end there by both
\* checks that compare points.
ChecksExact ==
    stage = "done" =>
        /\ policy = "DalekDecoded" =>
             (output.holds <=> \A m \in Factors :
                                   Mod(m)!EqualsAffine(ResiduesOf(acc, m), ResiduesOf(multiples[1], m)))
        /\ (\A i \in 0..3 : digits.key[i] = 0) /\ digits.base[0] = 1 /\ digits.base[1] = 0
             /\ policy \in {"Zip215", "DalekDecoded"} => output.holds
=============================================================================
