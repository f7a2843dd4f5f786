----------------------------- MODULE MCPlugins ------------------------------
(***************************************************************************)
(* The parts of a slave process that have threads of their own, each with  *)
(* the bounds of one run: the sources, the message output, the preview and *)
(* the table of objects.  They share nothing, so a behaviour has one of    *)
(* them.                                                                   *)
(***************************************************************************)
EXTENDS RtspSource, RtmpSource, HttpFileSource, MessageOutput, Preview, SlaveObjects

\* g2 may be the task of the same camera as g1, and is the one that is stopped.
MCChannel == [g \in {"g1", "g2"} |-> IF g = "g1" THEN {"c1"} ELSE {"c1", "c2"}]
MCFrames == [g \in {"g1", "g2"} |-> IF g = "g1" THEN 0 ELSE 2]
MCPvChannel == [g \in {"g1"} |-> "c1"]
MCPvSegments == [g \in {"g1"} |-> 1]
MCHttpNames == <<"k1">>

MCOn == <<rtspCrash # "off", rtmpCrash # "off", httpOn, mq.on, pvCrash # "off", so.on>>

MCInit ==
  /\ RtspInitial /\ RtmpInitial /\ HttpInitial /\ MqInitial /\ PvInitial
  /\ \E on \in BOOLEAN : SoInitial(on)
  /\ Cardinality({p \in DOMAIN MCOn : MCOn[p]}) = 1

MCNext ==
  \/ RtspNext /\ UNCHANGED <<rtmpVars, httpVars, mqVars, pvVars, soVars>>
  \/ RtmpNext /\ UNCHANGED <<rtspVars, httpVars, mqVars, pvVars, soVars>>
  \/ HttpNext /\ UNCHANGED <<rtspVars, rtmpVars, mqVars, pvVars, soVars>>
  \/ MqNext /\ UNCHANGED <<rtspVars, rtmpVars, httpVars, pvVars, soVars>>
  \/ PvNext /\ UNCHANGED <<rtspVars, rtmpVars, httpVars, mqVars, soVars>>
  \/ SoNext /\ UNCHANGED <<rtspVars, rtmpVars, httpVars, mqVars, pvVars>>

MCVars == <<rtspVars, rtmpVars, httpVars, mqVars, pvVars, soVars>>

-----------------------------------------------------------------------------
(* Fairness: the conjunction of RtspFairness, RtmpFairness, HttpFairness,  *)
(* MqFairness, PvFairness and SoFairness.  Only one part has steps in a    *)
(* behaviour, so fairness of one action of each part is fairness of their  *)
(* disjunction, and TLC has five formulas to follow instead of twenty-two. *)

MCRtsp(A) == rtspCrash = "no" /\ A /\ UNCHANGED <<rtmpVars, httpVars, mqVars, pvVars, soVars>>
MCRtmp(A) == rtmpCrash = "no" /\ A /\ UNCHANGED <<rtspVars, httpVars, mqVars, pvVars, soVars>>
MCHttp(A) == httpOn /\ A /\ UNCHANGED <<httpOn, rtspVars, rtmpVars, mqVars, pvVars, soVars>>
MCMq(A) == mq.on /\ A /\ UNCHANGED <<rtspVars, rtmpVars, httpVars, pvVars, soVars>>
MCPv(A) == pvCrash = "no" /\ A /\ UNCHANGED <<rtspVars, rtmpVars, httpVars, mqVars, soVars>>
MCSo(A) == A /\ UNCHANGED <<rtspVars, rtmpVars, httpVars, mqVars, pvVars>>

MCWeak1 ==
  \/ MCRtsp(RtspDaemon) \/ MCRtmp(RtmpDaemon) \/ MCHttp(HttpElement) \/ MCMq(MqReturning("t1"))
  \/ MCPv(PvThread("g1")) \/ MCSo(SoManager)

MCWeak2 ==
  \/ MCRtsp(RtspNotify("g2") \/ RtspNotifyAll("g2"))
  \/ MCRtmp(RtmpNotify("g2") \/ RtmpNotifyAll("g2"))
  \/ MCHttp(HttpServerThread(1)) \/ MCMq(MqReturning("t2")) \/ MCSo(SoAlgLoaded)

MCWeak3 == MCRtmp(RtmpReader("g2")) \/ MCHttp(HttpServerThread(2))

MCStrong1 ==
  \/ MCRtsp(RtspThread("g2")) \/ MCRtmp(RtmpThread("g2")) \/ MCMq(MqLock("t1"))
  \/ MCPv(PvElement("g1")) \/ MCSo(SoRestThread)

MCStrong2 ==
  \/ MCRtsp(RtspDaemonPlay("g2", TRUE))
  \/ MCRtmp(rtmp["g2"].again /\ RtmpOpen("g2") /\ rtmp'["g2"].reader = "test")
  \/ MCMq(MqLock("t2")) \/ MCPv(PvDaemon("g1")) \/ MCSo(SoHttpThread)

MCSpec ==
  /\ MCInit /\ [][MCNext]_MCVars
  /\ WF_MCVars(MCWeak1) /\ WF_MCVars(MCWeak2) /\ WF_MCVars(MCWeak3)
  /\ SF_MCVars(MCStrong1) /\ SF_MCVars(MCStrong2)
-----------------------------------------------------------------------------
(* Properties: the parts above, taken together. *)

\* A stopped source ends, whatever its camera, its reader and its daemon do.
SourcesStop == RtspStopEnds /\ RtmpStopEnds

\* "detect exception,restart it": a camera that fell silent is played again.
SourcesReconnect == RtspPlaysAgain /\ RtmpReadsAgain

\* Output and preview never hold their element for ever, and a preview that ended
\* is started again.
OutputsLive == MqReturns /\ PvStopReturns /\ PvRestarted
=============================================================================
