---------------------------- MODULE MCTaskRuntime ----------------------------
(***************************************************************************)
(* A pipeline of four elements in three threads. The detector and the      *)
(* tracker share a thread (async is false); the tracker has two inputs,    *)
(* the detections, popped first, and the pictures of the decoder.          *)
(***************************************************************************)
EXTENDS TaskRuntime

MCElement == {"object", "decode", "detect", "track"}
MCQueue == {"stream", "rgb1", "result", "rgb2"}
MCEles == <<<<"object">>, <<"decode">>, <<"detect", "track">>>>
MCInputs == [e \in MCElement |->
               CASE e = "object" -> <<>>
                 [] e = "decode" -> <<"stream">>
                 [] e = "detect" -> <<"rgb1">>
                 [] e = "track" -> <<"result", "rgb2">>]
MCProducer == [q \in MCQueue |->
                 CASE q = "stream" -> "object"
                   [] q \in {"rgb1", "rgb2"} -> "decode"
                   [] q = "result" -> "detect"]

\* A chain of three elements, a thread each.
ChainElement == {"object", "decode", "detect"}
ChainQueue == {"stream", "rgb"}
ChainEles == <<<<"object">>, <<"decode">>, <<"detect">>>>
ChainInputs == [e \in ChainElement |->
                  CASE e = "object" -> <<>>
                    [] e = "decode" -> <<"stream">>
                    [] e = "detect" -> <<"rgb">>]
ChainProducer == [q \in ChainQueue |-> IF q = "stream" THEN "object" ELSE "decode"]

\* A detector and a tracker in one thread behind the source.
PairElement == {"object", "detect", "track"}
PairQueue == {"image", "result"}
PairEles == <<<<"object">>, <<"detect", "track">>>>
PairInputs == [e \in PairElement |->
                 CASE e = "object" -> <<>>
                   [] e = "detect" -> <<"image">>
                   [] e = "track" -> <<"result">>]
PairProducer == [q \in PairQueue |-> IF q = "image" THEN "object" ELSE "detect"]
==============================================================================
