--------------------------- MODULE MCProcessorPool ---------------------------
(* Instances of ProcessorPool for TLC. *)
EXTENDS ProcessorPool

CONSTANTS t1, t2

TwoThreads == {t1, t2}
Processors == 1 .. 3

\* Stereo files have a configuration of their own, and one for every number of
\* channels; mono files only that.
Special == "filter-44100-2.conf"
General == "filter-44100.conf"
OneConfig == {General}
TwoConfigs == {Special, General}
Stereo == [stereo |-> [channels |-> 2, choices |-> <<Special, General>>]]
StereoAndMono ==
  [stereo |-> [channels |-> 2, choices |-> <<General>>],
   mono   |-> [channels |-> 1, choices |-> <<General>>]]

\* One impulse file of three stereo frames, read two at a time.
Impulse == [wav |-> [frames |-> 3, chan |-> 2]]
Lengths == {4}

dense(inputs, outputs, size, density) ==
  [cmd |-> "/convolver/new", ninp |-> inputs, nout |-> outputs, size |-> size,
   dens |-> density]
new(inputs, outputs, size) == dense(inputs, outputs, size, 0)
read(ip, op, offset, length, file) ==
  [cmd |-> "/impulse/read", ip |-> ip, op |-> op, delay |-> 0, offset |-> offset,
   length |-> length, chan |-> ip, file |-> file]
dirac(ip, op) == [cmd |-> "/impulse/dirac", ip |-> ip, op |-> op, delay |-> 1]
hilbert(ip, op) ==
  [cmd |-> "/impulse/hilbert", ip |-> ip, op |-> op, delay |-> 2, length |-> 4]
copy(ip, op, ip2, op2) ==
  [cmd |-> "/impulse/copy", ip |-> ip, op |-> op, ip2 |-> ip2, op2 |-> op2]
comment == [cmd |-> "nothing"]

\* Lines before /convolver/new and after it, and a second one that wants more,
\* or less. Sizes around two fragments (2; 4 and 5), the longest response (16)
\* and one that is too long; a density out of range; 64 is -64, whose double is
\* out of range.
Texts ==
  [reads   |-> <<comment, new(1, 2, 4), read(1, 2, 0, 0, "wav"), read(1, 1, 0, 0, "gone")>>,
   more    |-> <<new(2, 2, 2), copy(2, 2, 1, 1), hilbert(1, 1), new(3, 2, 5)>>,
   less    |-> <<new(2, 2, 16), dense(1, 1, 2, 101)>>,
   tooLong |-> <<new(1, 1, 17)>>,
   minus   |-> <<new(1, 1, 64)>>,
   endless |-> <<new(2, 2, 5), read(1, 1, 3, 1, "wav")>>,
   fits    |-> <<new(2, 2, 4), dirac(2, 2)>>]

EditsOfBoth ==
  [c \in TwoConfigs |-> IF c = Special THEN {NoFile, "endless"}
                        ELSE {"reads", "more", "less", "tooLong", "minus"}]
EditsOfOne == [c \in OneConfig |-> {NoFile, "fits"}]
=============================================================================
