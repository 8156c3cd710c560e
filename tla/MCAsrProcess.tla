---------------------------- MODULE MCAsrProcess ----------------------------
(* AsrProcess on small instances. *)
EXTENDS AsrProcess, TLC

As(preload, failFast, rawUds, backend) ==
    [preload |-> preload, failFast |-> failFast, rawUds |-> rawUds, backend |-> backend]

\* The adapters that differ, loaded lazily; preloads that may fail.
SomeSettings ==
    {As(FALSE, FALSE, TRUE, FasterWhisperAdapter), As(FALSE, FALSE, TRUE, VoskAdapter),
     As(FALSE, FALSE, FALSE, ParakeetMLXAdapter), As(TRUE, TRUE, TRUE, VoxtralMLXAdapter),
     As(TRUE, FALSE, TRUE, ParakeetNemoAdapter)}

\* One worker thread is like another.
Symmetry == Permutations(Workers)
=============================================================================
