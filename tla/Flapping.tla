------------------------------ MODULE Flapping ------------------------------
(***************************************************************************)
(* Flapping detection (lib/icinga/checkable-flapping.cpp): which of the     *)
(* last results changed the state is kept in the bits of a ring buffer; the *)
(* weighted share of the changes decides, with one threshold to start and   *)
(* another one to end. The code has 20 bits and sums doubles; here the      *)
(* number is a parameter and the weights are hundredths.                    *)
(***************************************************************************)
EXTENDS Naturals, Sequences

CONSTANTS
    Bits,                           \* of the ring buffer
    ThresholdLow, ThresholdHigh,    \* in percent
    FlappingStates, IgnoreStates    \* the states of results, and those not to count

ASSUME FlappingAssumption ==
    /\ {Bits, ThresholdLow, ThresholdHigh} \subseteq Nat /\ Bits > 0
    /\ IgnoreStates \subseteq FlappingStates

VARIABLES
    flappingBuffer, flappingIndex, flappingLastState, isFlapping,
    recent      \* history: which of the last results were changes, the newest first

flappingVars == <<flappingBuffer, flappingIndex, flappingLastState, isFlapping, recent>>

FlappingInit ==
    /\ flappingBuffer = [i \in 0..(Bits - 1) |-> FALSE]
    /\ flappingIndex = 0
    /\ flappingLastState \in FlappingStates
    /\ isFlapping = FALSE
    /\ recent = [age \in 1..Bits |-> FALSE]

\* A result whose state is ignored is no change and is not remembered.
StateChanged(new) == new \notin IgnoreStates /\ new # flappingLastState

\* The weighted total of the changes in a window, the oldest at 0: in hundredths of a change
Total(window) ==
    LET sum[i \in 0..Bits] ==
            IF i = 0 THEN 0 ELSE sum[i - 1] + IF window[i - 1] THEN 78 + 2 * i ELSE 0
    IN sum[Bits]

\* Mutation of Current: the loop begins at the newest bit.
CurrentFromNewest(buffer, oldest) ==
    Total([i \in 0..(Bits - 1) |-> buffer[(oldest + Bits - 1 + i) % Bits]])

\* The loop begins at the oldest bit.
Current(buffer, oldest) == Total([i \in 0..(Bits - 1) |-> buffer[(oldest + i) % Bits]])

Exceeds(total, percent) == total > percent * Bits

UpdateFlappingStatus(new) ==
    LET buffer == [flappingBuffer EXCEPT ![flappingIndex] = StateChanged(new)]
        oldest == (flappingIndex + 1) % Bits
    IN /\ flappingLastState' = IF new \in IgnoreStates THEN flappingLastState ELSE new
       /\ flappingBuffer' = buffer
       /\ flappingIndex' = oldest
       /\ isFlapping' = Exceeds(Current(buffer, oldest),
                                IF isFlapping THEN ThresholdLow ELSE ThresholdHigh)
       /\ recent' = <<StateChanged(new)>> \o SubSeq(recent, 1, Bits - 1)

FlappingNext == \E new \in FlappingStates : UpdateFlappingStatus(new)

FlappingSpec == FlappingInit /\ [][FlappingNext]_flappingVars

-----------------------------------------------------------------------------
\* What the documentation calls the current flapping value: of the last results the
\* changes count, a newer one more than an older one.
Share(last) == Total([i \in 0..(Bits - 1) |-> last[Bits - i]])

\* However the ring buffer wraps around, and whatever results are ignored: flapping begins
\* when the share of changes in the last results is above the high threshold, and ends
\* when it is not above the low one.
FlappingFollows ==
    [][/\ isFlapping' # isFlapping =>
            IF isFlapping THEN ~Exceeds(Share(recent'), ThresholdLow)
                          ELSE Exceeds(Share(recent'), ThresholdHigh)
       /\ Exceeds(Share(recent'), ThresholdHigh) => isFlapping'
       /\ ~Exceeds(Share(recent'), ThresholdLow) => ~isFlapping']_flappingVars
=============================================================================
