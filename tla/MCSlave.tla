------------------------------ MODULE MCSlave -------------------------------
(***************************************************************************)
(* The parts of a slave and of its plugins, each with the bounds at which  *)
(* its safety properties are interesting.  A behaviour is one of a single  *)
(* part: they share no state.                                              *)
(***************************************************************************)
EXTENDS RtspSource, RtmpSource, MessageOutput, Preview, SlaveObjects, PacketFlow,
        PipelineConfig, AttachThreads, Tracker, Assignment, Tokenizer, Pixels, Overlay

VARIABLE part   \* the part this behaviour is of

-----------------------------------------------------------------------------
(* The bounds *)

\* g2 may be the task of the same camera as g1, and is the one that is stopped.
MCChannel == [g \in {"g1", "g2"} |-> IF g = "g1" THEN {"c1"} ELSE {"c1", "c2"}]
\* A reader is found again by the camera's id: here g2 always has that of g1.
MCSameChannel == [g \in {"g1", "g2"} |-> {"c1"}]
MCFrames == [g \in {"g1", "g2"} |-> IF g = "g1" THEN 0 ELSE 2]
MCRtspFrames == [g \in {"g1", "g2"} |-> IF g = "g1" THEN 0 ELSE 3]
MCPvChannel == [g \in {"g1"} |-> "c1"]
MCPvSegments == [g \in {"g1"} |-> 13]
MCHttpNames == <<"k1">>

\* A camera, a decoder, a detector and a tracker, which takes the results of the
\* detector as input[0] and the pictures of the decoder beside them.  Two tasks of
\* these: in the first the thread of the tracker connected to the decoder before the
\* thread of the detector did, in the other after it.
MCElement == {"object", "decode", "detect", "track"} \X {"flow", "raced"}
MCQueue == {"stream", "rgb1", "result", "rgb2"} \X {"flow", "raced"}
MCOf(e, names) == [i \in DOMAIN names |-> <<names[i], e[2]>>]
MCInputs == [e \in MCElement |-> MCOf(e,
               CASE e[1] = "object" -> <<>>
                 [] e[1] = "decode" -> <<"stream">>
                 [] e[1] = "detect" -> <<"rgb1">>
                 [] e[1] = "track" -> <<"result", "rgb2">>)]
MCOutputs == [e \in MCElement |-> MCOf(e,
                CASE e[1] = "object" -> <<"stream">>
                  [] e[1] = "decode" -> IF e[2] = "flow" THEN <<"rgb2", "rgb1">> ELSE <<"rgb1", "rgb2">>
                  [] e[1] = "detect" -> <<"result">>
                  [] e[1] = "track" -> <<>>)]

\* Contents of task.json: one algorithm, another, both, and no JSON.
MCFile == {[size |-> 1, ok |-> TRUE, names |-> {1}], [size |-> 2, ok |-> TRUE, names |-> {2}],
           [size |-> 3, ok |-> TRUE, names |-> {1, 2}], [size |-> 4, ok |-> FALSE, names |-> {}]}

\* More detections than tracks, fewer, and as many.
MCShapes == {<<1, 1>>, <<2, 2>>, <<1, 3>>, <<3, 1>>, <<2, 3>>}

\* A vocabulary with pieces of words, and texts of up to three fragments: special
\* tokens, what looks like one, punctuation, spaces and accents.
MCPad == <<"[", "p", "]">>
MCMask == <<"[", "m", "m", "]">>
MCVocab == <<MCPad, <<"[", "u", "]">>, <<"[", "c", "]">>, <<"[", "s", "]">>, MCMask, <<"a">>,
             <<"a", "b">>, <<"##", "b", "a">>, <<"##", "b">>, <<",">>, <<"han">>, <<"]">>, <<"p">>>>
MCSpecial == <<MCVocab[2], MCVocab[4], MCVocab[1], MCVocab[3], MCVocab[5]>>
MCFragment == {<<"a">>, <<"A">>, <<"b">>, <<" ">>, <<"tab">>, <<",">>, <<"han">>, <<"control">>,
               <<"accent">>, MCPad, MCMask, <<"[">>, <<"]">>, <<"m">>, <<"a", "b", "a">>}
MCText == {f \o g \o h : f \in MCFragment, g \in MCFragment \cup {<<>>}, h \in MCFragment \cup {<<>>}}

MCSizes == {<<2, 2>>, <<4, 2>>, <<2, 4>>, <<4, 4>>, <<6, 4>>, <<4, 6>>}
MCGlyphs == {[w |-> 3, h |-> 3, up |-> 2, dots |-> {<<0, 0>>, <<1, 1>>, <<2, 2>>}],
             [w |-> 2, h |-> 2, up |-> 1, dots |-> {<<0, 1>>, <<1, 0>>, <<1, 1>>}],
             [w |-> 2, h |-> 2, up |-> 0, dots |-> {<<0, 1>>, <<1, 0>>, <<1, 1>>}],
             [w |-> 2, h |-> 10, up |-> 1, dots |-> {<<0, 0>>, <<9, 1>>}]}

-----------------------------------------------------------------------------

MCPart == {"rtsp", "rtmp", "mq", "preview", "objects", "flow", "raced", "pipeline", "attach",
           "tracker", "assignment", "tokenizer", "pixels", "overlay"}

MCInit ==
  /\ part \in MCPart
  /\ RtspInitial /\ RtmpInitial /\ MqInitial /\ PvInitial
  /\ rtspCrash = "no" <=> part = "rtsp"
  /\ rtmpCrash = "no" <=> part = "rtmp"
  /\ mq.on <=> part = "mq"
  /\ pvCrash = "no" <=> part = "preview"
  /\ SoInitial(part = "objects")
  /\ Init
  /\ TrInitial
  /\ PlInitial(part = "pipeline")
  /\ AtInitial(part = "attach")
  /\ LapInitial(part = "assignment")
  /\ TkInitial(part = "tokenizer")
  /\ PxInitial(part = "pixels")
  /\ OsdInitial(part = "overlay")

\* The variables of the processes, and of the algorithms.
MCProcesses == <<rtspVars, rtmpVars, mqVars, pvVars, soVars, vars>>
MCAlgorithms == <<plVars, walk, tr, lap, tk, px, osd>>

\* One task runs.
MCFlowNext == \E e \in Element : e[2] = part /\ Step(e)

MCProcessNext ==
  \/ RtspNext /\ UNCHANGED <<rtmpVars, mqVars, pvVars, soVars, vars>>
  \/ RtmpNext /\ UNCHANGED <<rtspVars, mqVars, pvVars, soVars, vars>>
  \/ MqNext /\ UNCHANGED <<rtspVars, rtmpVars, pvVars, soVars, vars>>
  \/ PvNext /\ UNCHANGED <<rtspVars, rtmpVars, mqVars, soVars, vars>>
  \/ SoNext /\ UNCHANGED <<rtspVars, rtmpVars, mqVars, pvVars, vars>>
  \/ MCFlowNext /\ UNCHANGED <<rtspVars, rtmpVars, mqVars, pvVars, soVars>>

MCAlgorithmNext ==
  \/ PlNext /\ UNCHANGED <<walk, tr, lap, tk, px, osd>>
  \/ AtNext /\ UNCHANGED <<plVars, tr, lap, tk, px, osd>>
  \/ part = "tracker" /\ TrNext /\ UNCHANGED <<plVars, walk, lap, tk, px, osd>>
  \/ LapNext /\ UNCHANGED <<plVars, walk, tr, tk, px, osd>>
  \/ TkNext /\ UNCHANGED <<plVars, walk, tr, lap, px, osd>>
  \/ PxNext /\ UNCHANGED <<plVars, walk, tr, lap, tk, osd>>
  \/ OsdNext /\ UNCHANGED <<plVars, walk, tr, lap, tk, px>>

MCNext ==
  \/ MCProcessNext /\ UNCHANGED <<part, MCAlgorithms>>
  \/ MCAlgorithmNext /\ UNCHANGED <<part, MCProcesses>>

MCSpec == MCInit /\ [][MCNext]_<<part, MCProcesses, MCAlgorithms>>
=============================================================================
