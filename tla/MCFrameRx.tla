------------------------------ MODULE MCFrameRx ------------------------------
(* FrameRx scaled down: a ring of eight bytes, so a length byte still can  *)
(* name the whole ring, SOF = 6, one checksum byte, frames of 3..8 bytes.  *)
EXTENDS FrameRx

MCByte == 0..7
MCSof  == 6

Infs(n) == [1..n -> {0, MCSof}]

\* Noise before and bytes after the answer: a false SOF, a length too short
\* to be one, lengths that reach into the answer and beyond it.
Noise == {<<>>, <<3>>, <<MCSof>>, <<MCSof, 0>>, <<MCSof, 4>>}
Tails == {<<>>, <<MCSof, 2>>}

NoisyStreams == {noise \o Frame(inf) \o tail :
                    noise \in Noise, inf \in Infs(0) \cup Infs(1) \cup {<<0, 0, MCSof>>},
                    tail \in Tails}

\* Answers alone, up to the longest the length byte can count.
CleanStreams == {Frame(inf) : inf \in UNION {Infs(n) : n \in 0..5}}

\* Bytes of the ring are read only after a push wrote them, so one content of
\* the fresh memory stands for all.
MCInit == /\ Buffer = [p \in Slots |-> MCSof]
          /\ RxInit
MCSpec == MCInit /\ [][RxNext]_rxVars
==============================================================================
