----------------------------- MODULE PeriodStream -----------------------------
(***************************************************************************)
(* What both recorders ask of an audio device: the sound, cut into periods *)
(* of the encoder's frame size, each whole and handed over once, in order. *)
(***************************************************************************)
EXTENDS Naturals, Sequences

CONSTANT Period          \* samples of a period

VARIABLES sound,         \* the samples that were recorded
          periods        \* the periods that were handed over

PInit == sound = <<>> /\ periods = <<>>

Hear == /\ \E n \in 1 .. Len(sound') : SubSeq(sound', 1, Len(sound') - n) = sound
        /\ UNCHANGED periods

Cut(n) == [i \in 1 .. n |-> SubSeq(sound, Period * (i - 1) + 1, Period * i)]

HandOver == /\ \E n \in Len(periods) + 1 .. Len(sound) \div Period : periods' = Cut(n)
            /\ UNCHANGED sound

PSpec == PInit /\ [][Hear \/ HandOver]_<<sound, periods>>
===============================================================================
