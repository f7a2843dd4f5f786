------------------------------ MODULE Tracker ------------------------------
(***************************************************************************)
(* The tracker plugin: the ByteTrack lists of one video object             *)
(* (bytetrack/src) and the capture of the tracks that cross a line         *)
(* (tracker.cpp).  One step is one TrackerProcess, which the thread of the *)
(* task runs to its end.                                                   *)
(*                                                                         *)
(* What the boxes decide is left open: which tracks a detection is         *)
(* assigned to (iou_distance and lapjv), which tracked and lost boxes are  *)
(* the same (an IoU distance below 0.15) and where a box lies with regard  *)
(* to the line.  What is kept is what the code does with the answer.       *)
(*                                                                         *)
(* track ids come from a counter that is never set back, so a track is     *)
(* identified by its id; a lost track that was marked Removed is one whose *)
(* id is in "removed".                                                     *)
(***************************************************************************)
EXTENDS Integers, FiniteSets, Sequences, SequencesExt, SeqFilter

CONSTANTS
  TrMaxLost,   \* max_time_lost, 25 frames
  TrKeep,      \* how long an entry of "tracking" is kept unseen, 500
  TrSweep,     \* every how many frame ids the entries are looked through, 100
  TrGap,       \* the frame ids between two packets are at most this far apart
  TrPassed,    \* how often in a row a track can be passed over and keep its entry
  TrDets,      \* bound: detections of one frame
  TrIds,       \* bound: tracks ever created
  TrFrames,    \* bound: packets of one start
  TrRestarts   \* bound: stops and starts of the task

\* Frame ids and ids are counted; the remainder by TrSweep is taken.
ASSUME TrTypeAssumption ==
  {TrMaxLost, TrKeep, TrSweep, TrGap, TrPassed, TrDets, TrIds} \subseteq Nat /\ TrSweep # 0

\* A track may stay away for TrMaxLost + 1 frames, come back in a frame whose
\* capture of another track leaves its entry as it was, and go again: its entry
\* lasts for TrPassed such frames. That is 17 for the constants of the code and
\* packets that follow each other.
ASSUME TrKeepAssumption ==
  TrMaxLost > 0 /\ TrGap > 0 /\ TrKeep + 1 >= (TrPassed + 1) * ((TrMaxLost + 2) * TrGap)

VARIABLE
  tr   \* the tracker and the capture state of the object

Above == "above"   \* the whole box is above the line
Across == "across" \* the line goes through the box
Below == "below"   \* the whole box is below the line

TrIdsOf(s) == {t.id : t \in s}

\* A new BYTETracker and a new ModuleObj; the counter of ids is a static one.
\* "shots", "passed" and "unlucky" are history: the ids captured, how many frames
\* in a row the loop of the capture passed a track over, and the ids for which
\* these were too many.
TrFresh(nextId, shots, unlucky, restarts) ==
  [frame |-> 0, packet |-> 0, tracked |-> <<>>, lost |-> {}, removed |-> {}, nextId |-> nextId,
   tracking |-> <<>>, last |-> 0, shots |-> shots, passed |-> [id \in 1..TrIds |-> 0],
   unlucky |-> unlucky, restarts |-> restarts]

TrInitial == tr = TrFresh(1, <<>>, {}, 0)

TrStop ==
  /\ tr.restarts < TrRestarts
  /\ tr' = TrFresh(tr.nextId, tr.shots, tr.unlucky, tr.restarts + 1)

-----------------------------------------------------------------------------
(* STrack *)

\* activate: only the tracks of the first frame are confirmed at once.
Activated(id, f) == [id |-> id, active |-> f = 1, seen |-> f, start |-> f]

\* update and re_activate: seen in this frame, and confirmed.
Updated(t, f) == [t EXCEPT !.seen = f, !.active = TRUE]

-----------------------------------------------------------------------------
(* BYTETracker::update *)

Confirmed == {t \in Range(tr.tracked) : t.active}
Unconfirmed == {t \in Range(tr.tracked) : ~t.active}

\* strack_pool: joint_stracks keeps the first of two tracks with one id.
StrackPool == Confirmed \cup {t \in tr.lost : t.id \notin TrIdsOf(Confirmed)}

\* linear_assignment: some of the tracks get a detection each.
Assigned(tracks, dets) == {S \in SUBSET tracks : Cardinality(S) <= dets}

\* The confirmed tracks that neither association found are marked lost.
NewlyLost(found) == {t \in Confirmed : t \notin found}

\* lost_stracks is sorted by id: one sequence, as no id is there twice.
SortedById(tracks) ==
  {s \in [1..Cardinality(tracks) -> tracks] : \A i, j \in DOMAIN s : i < j => s[i].id < s[j].id}

UpdatedEach(s, f) == [i \in DOMAIN s |-> Updated(s[i], f)]
Created(fresh, f) == [i \in 1..fresh |-> Activated(tr.nextId + i - 1, f)]

\* tracked_stracks: those still in state Tracked, in their order, then the
\* new ones, then the ones found again.
TrackedList(found, refound, fresh, f) ==
  UpdatedEach(Kept(tr.tracked, found), f) \o Created(fresh, f) \o UpdatedEach(refound, f)

\* end_frame() is too long ago: marked removed.
Outdated(found, f) == {t \in tr.lost \ found : f - t.seen > TrMaxLost}

\* Mutant: the removed tracks are not subtracted from the lost ones.
LostListAll(found, lost) == (tr.lost \ found) \cup lost

\* sub_stracks with this->removed_stracks happens before the tracks removed
\* in this frame are appended to it.
LostList(found, lost) ==
  {t \in (tr.lost \ found) \cup lost : t.id \notin tr.removed}

RemovedList(outdated, gone) == tr.removed \cup TrIdsOf(outdated) \cup TrIdsOf(gone)

Age(t) == t.seen - t.start

\* remove_duplicate_stracks: of two boxes that are the same, the tracked one
\* stays when it has lived longer.
DuplicateTracked(pairs) == {p[1] : p \in {q \in pairs : Age(q[1]) <= Age(q[2])}}
DuplicateLost(pairs) == {p[2] : p \in {q \in pairs : Age(q[1]) > Age(q[2])}}

-----------------------------------------------------------------------------
(* TrackCapture *)

\* t->last_frameid = frame_id, whether the track is captured already or not.
Seen(e, packet) == [e EXCEPT !.last = packet]

\* t->capture || last_capture_frameid + 1 >= frame_id
MayCapture(e, last, packet) == ~e.capture /\ last + 1 < packet

\* The box has reached the line from the side on which it was first seen.
Crossed(e, box) ==
  \/ box \in {Across, Below} /\ ~e.up
  \/ box \in {Across, Above} /\ e.up

NewEntry(box, packet) == [capture |-> FALSE, last |-> packet, up |-> box # Above]

\* The first output track that is captured ends the loop: 0 when there is none.
Captured(out, boxes, packet) ==
  LET hit == {i \in DOMAIN out :
                /\ out[i].id \in DOMAIN tr.tracking
                /\ MayCapture(tr.tracking[out[i].id], tr.last, packet)
                /\ Crossed(tr.tracking[out[i].id], boxes[i])}
  IN  IF hit = {} THEN 0 ELSE CHOOSE i \in hit : \A j \in hit : i <= j

\* What the loop leaves in "tracking": a track behind the captured one is not
\* reached in this frame.
Entries(out, boxes, packet, shot) ==
  LET reached == {i \in DOMAIN out : shot = 0 \/ i <= shot}
      At(id) == CHOOSE i \in reached : out[i].id = id
      ids == {out[i].id : i \in reached}
  IN  [id \in DOMAIN tr.tracking \cup ids |->
         IF id \notin ids THEN tr.tracking[id]
         ELSE IF id \notin DOMAIN tr.tracking THEN NewEntry(boxes[At(id)], packet)
         ELSE [Seen(tr.tracking[id], packet) EXCEPT !.capture = @ \/ At(id) = shot]]

\* The tracks with an entry that are behind the captured one, and how often in a
\* row each track was.
PassedOver(out, shot) ==
  {out[i].id : i \in {j \in DOMAIN out : shot # 0 /\ j > shot}} \cap DOMAIN tr.tracking
PassedCount(out, shot) ==
  [id \in 1..TrIds |->
     IF id \in PassedOver(out, shot) THEN tr.passed[id] + 1
     ELSE IF id \in TrIdsOf(Range(out)) THEN 0 ELSE tr.passed[id]]
Unlucky(out, shot) == {id \in PassedOver(out, shot) : tr.passed[id] >= TrPassed}

\* Every TrSweep frame ids the entries that were not seen for long are erased.
Swept(entries, packet) ==
  IF packet % TrSweep # 0 THEN entries
  ELSE [id \in {i \in DOMAIN entries : entries[i].last + TrKeep >= packet} |-> entries[id]]

-----------------------------------------------------------------------------
(* TrackerProcess: the boxes of a packet go through the tracker, and the   *)
(* confirmed tracks through the capture.                                   *)

\* What the capture makes of the state s, whose lists are those of the packet.
TrCapture(s) ==
  LET out == Kept(s.tracked, {t \in Range(s.tracked) : t.active})
  IN  \E boxes \in [DOMAIN out -> {Above, Across, Below}] :
        LET shot == Captured(out, boxes, s.packet)
        IN  tr' = [s EXCEPT
              !.tracking = Swept(Entries(out, boxes, s.packet, shot), s.packet),
              !.last = IF shot = 0 THEN @ ELSE s.packet,
              !.shots = IF shot = 0 THEN @ ELSE Append(@, out[shot].id),
              !.passed = PassedCount(out, shot),
              !.unlucky = @ \cup Unlucky(out, shot)]

\* The end of update, once it is known which tracks were found and which of the
\* unconfirmed ones are gone.
TrFollow(gap, fresh, found, gone) ==
  LET f == tr.frame + 1
      lost == LostList(found, NewlyLost(found))
  IN  \E refound \in SortedById(found \cap tr.lost) :
        LET tracked == TrackedList(found, refound, fresh, f)
        IN  \E pairs \in SUBSET (Range(tracked) \X lost) :
              TrCapture([tr EXCEPT
                !.frame = f, !.packet = @ + gap, !.nextId = @ + fresh,
                !.tracked = Kept(tracked, Range(tracked) \ DuplicateTracked(pairs)),
                !.lost = lost \ DuplicateLost(pairs),
                !.removed = RemovedList(Outdated(found, f), gone)])

TrProcess ==
  /\ tr.frame < TrFrames
  /\ \E gap \in 1..TrGap, fresh \in 0..TrDets :
     \E first \in Assigned(StrackPool, TrDets - fresh) :
     \E second \in Assigned(Confirmed \ first, TrDets - fresh - Cardinality(first)) :
     \E third \in Assigned(Unconfirmed, TrDets - fresh - Cardinality(first \cup second)) :
       /\ tr.nextId + fresh - 1 <= TrIds
       /\ TrFollow(gap, fresh, first \cup second \cup third, Unconfirmed \ third)

TrNext == TrProcess \/ TrStop

TrSpec == TrInitial /\ [][TrNext]_tr

-----------------------------------------------------------------------------
(* Properties *)

\* One object is reported once: no track id is captured twice, although its
\* entry is erased when it was not seen for long, the track may come back after
\* it was lost, and the task may be restarted; unless it was passed over too
\* often in a row, always shown in a frame in which a track before it was
\* captured and never between (tracker.cpp TrackCapture, STrack::next_id).
TrCapturedOnce ==
  \A i, j \in DOMAIN tr.shots :
    tr.shots[i] = tr.shots[j] /\ tr.shots[i] \notin tr.unlucky => i = j

\* Every tracked box was seen in this very frame, no id is in two places, and
\* a lost track is given up in time: the lists of BYTETracker::update are
\* edited one after the other, and a track left in the wrong one would be
\* reported from an old position.
TrListsExact ==
  /\ \A i, j \in DOMAIN tr.tracked : tr.tracked[i].id = tr.tracked[j].id => i = j
  /\ \A t \in Range(tr.tracked) : t.seen = tr.frame /\ t.id \notin TrIdsOf(tr.lost)
  /\ \A s, t \in tr.lost : s.id = t.id => s = t
  /\ \A t \in tr.lost : tr.frame - t.seen <= TrMaxLost + 1

\* No object is reported twice or from an old position (TrackProcess,
\* BYTETracker::update).
TrExact == TrCapturedOnce /\ TrListsExact
=============================================================================
