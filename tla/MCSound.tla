------------------------------ MODULE MCSound ------------------------------
(* Sound files of 8, 16 and 24 bits, longer and shorter than the buffer, a file     *)
(* that is none, and two with a bad block: behind the first chunk, and within it.   *)
EXTENDS Sound

Wav(bits, length, bad) == [riff |-> TRUE, bits |-> bits, length |-> length, bad |-> bad]

MCWavs == [w \in 1 .. 7 |-> CASE w = 1 -> Wav(8, 7, 7)
                              [] w = 2 -> Wav(8, 1, 1)
                              [] w = 3 -> Wav(16, 6, 6)
                              [] w = 4 -> Wav(24, 4, 4)
                              [] w = 5 -> [Wav(8, 4, 4) EXCEPT !.riff = FALSE]
                              [] w = 6 -> Wav(8, 5, 3)
                              [] w = 7 -> Wav(8, 2, 0)]
=============================================================================
