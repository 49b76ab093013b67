--------------------------- MODULE MCToolPipeline ---------------------------
(***************************************************************************)
(* The whole catalogue, over two tracks with the same alias and a return   *)
(* whose name contains it; one of them is inserted or deleted meanwhile.   *)
(***************************************************************************)
EXTENDS ToolPipeline, ToolCatalog

CONSTANTS bass, synth, reverb

Letter == {"A"}
Three == {bass, synth, reverb}
Names == [t \in Three |->
            IF t = bass THEN <<"bass">>
            ELSE IF t = synth THEN <<"bass", "synth">> ELSE <<"A", "bass">>]
BassSynth == <<bass, synth>>
ReturnTracks == {reverb}
=============================================================================
