------------------------------ MODULE PowChain ------------------------------
(***************************************************************************)
(* The two addition chains of src/src/wide/avx512ifma/field.rs, for the    *)
(* power (p - 5) / 8 and for the inverse, as data: a chain makes one power *)
(* after the other, each by squaring an earlier one and multiplying by     *)
(* another.  The first power is the value the chain starts from.           *)
(***************************************************************************)
EXTENDS WideField, Sequences

\* Square power `of` so many times, then multiply by power `by`, if there is one.
Made(of, times, by) == [of |-> of, times |-> times, by |-> by]

\* The shared part with one multiplication by the power before (faulty)
SharedStepsSlipped == << Made(1, 1, 0), Made(2, 2, 1), Made(2, 0, 3), Made(4, 1, 3), Made(5, 5, 5),
                         Made(6, 10, 6), Made(7, 20, 7), Made(8, 10, 7), Made(9, 50, 9),
                         Made(10, 100, 10), Made(11, 50, 9) >>

\* z^(2^250 - 1), which both chains come to; the power after it is the last.
SharedSteps == << Made(1, 1, 0),    \* t0 = z^2
                  Made(2, 2, 1),    \* t1 = z^9
                  Made(2, 0, 3),    \* z^11
                  Made(4, 1, 3),    \* z^(2^5 - 1)
                  Made(5, 5, 5),    \* z^(2^10 - 1)
                  Made(6, 10, 6),
                  Made(7, 20, 7),
                  Made(8, 10, 6),   \* z^(2^50 - 1)
                  Made(9, 50, 9),
                  Made(10, 100, 10),
                  Made(11, 50, 9) >>

PowSteps    == Append(SharedSteps, Made(12, 2, 1))
InvertSteps == Append(SharedSteps, Made(12, 5, 4))

\* A chain under way: the powers made, the value at hand, and how often it is
\* still to be squared.
Started(steps, z) == [steps |-> steps, powers |-> <<z>>, out |-> z, left |-> steps[1].times]

CurrentStep(chain) == chain.steps[Len(chain.powers)]
IsDone(chain)      == Len(chain.powers) > Len(chain.steps)

\* square_repeat that leaves its result loose (faulty)
SquaredLoosely(chain) == [chain EXCEPT !.out = SquareLoose(@), !.left = @ - 1]

\* One squaring of square_repeat: loose, but for the last
Squared(chain) ==
    [chain EXCEPT !.out  = IF chain.left > 1 THEN SquareLoose(@) ELSE Square(@),
                  !.left = @ - 1]

\* The multiplication that ends a step, and the start of the next
Multiplied(chain) ==
    LET by     == CurrentStep(chain).by
        power  == IF by = 0 THEN chain.out ELSE Multiply(chain.out, chain.powers[by])
        powers == Append(chain.powers, power)
    IN  IF Len(powers) > Len(chain.steps)
        THEN [chain EXCEPT !.powers = powers, !.out = power]
        ELSE LET next == chain.steps[Len(powers)]
             IN  [chain EXCEPT !.powers = powers, !.out = powers[next.of], !.left = next.times]
=============================================================================
