---------------------------------- MODULE MCLp ----------------------------------
(* Times around the open of Tuesday 6 October 2026, 09:30 in New York.          *)
EXTENDS Lp

Open == 29854890
Eve == 29442539   \* the last minute of 23 December 2025
MCInstants == {Open + m : m \in {-3, 0, 9, 31, 390}}

\* The script's default schedule (in tenths of a thousandth), one at the limits, one refused.
DefaultFees == [regularFee |-> 5, extendedFee |-> 30, closedFee |-> 100, maxFee |-> 300,
                openingRamp |-> 30, gapCaptureBps |-> 5000, maxReferenceAge |-> 15,
                corporateActionWindow |-> 1440]
FlatFees == [regularFee |-> 500, extendedFee |-> 500, closedFee |-> 500, maxFee |-> 500,
             openingRamp |-> 0, gapCaptureBps |-> 10000, maxReferenceAge |-> 60,
             corporateActionWindow |-> 0]
WrongFees == [FlatFees EXCEPT !.extendedFee = 30]
MCSchedules == {DefaultFees, FlatFees, WrongFees}

MCDays == Vectors(20251224, 20280108)
Start(t) == [start |-> t, fees |-> DefaultFees, script |-> FALSE, days |-> FALSE,
             hook |-> 0, vault |-> 0]
MCFoci ==
    {[Start(Eve) EXCEPT !.days = TRUE],
     [Start(Open - 3) EXCEPT !.script = TRUE, !.hook = 4],
     [Start(Open) EXCEPT !.hook = 1, !.vault = 4]}
MCFees == {<<1, 0>>, <<0, 3>>}

=================================================================================
