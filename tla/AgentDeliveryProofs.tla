------------------------ MODULE AgentDeliveryProofs ------------------------
(***************************************************************************)
(* Proofs about AgentDelivery, for every workspace, every set of calls and *)
(* every way in which other tasks of the bot write and upload the files.   *)
(***************************************************************************)
EXTENDS AgentDelivery, AgentLoopProofs

----------------------------------------------------------------------------
(* AgentDelivery refines AgentLoop.                                        *)

\* A step is one of the loop, or leaves its variables alone.
LEMMA StepIsLoop == [DeliveryNext]_allVars => [Next]_vars
<1> SUFFICES ASSUME [DeliveryNext]_allVars PROVE [Next]_vars
  OBVIOUS
<1>1. CASE UseTool
  BY <1>1 DEF UseTool, Next, AgentStep
<1>2. CASE LoopStep
  BY <1>2 DEF LoopStep, Next, AgentStep
<1>3. CASE SkipTool \/ RecordRow
  BY <1>3 DEF SkipTool, RecordRow, Next, AgentStep
<1>4. CASE ReadFile \/ PutFile \/ Announce
  BY <1>4 DEF ReadFile, PutFile, Announce
<1>5. CASE UserStep
  BY <1>5 DEF UserStep, Next
<1>6. CASE \E p \in Path : OtherWrites(p) \/ OtherUploads(p)
  BY <1>6 DEF OtherWrites, OtherUploads
<1>7. CASE UNCHANGED allVars
  BY <1>7 DEF allVars
<1> QED
  BY <1>1, <1>2, <1>3, <1>4, <1>5, <1>6, <1>7 DEF DeliveryNext, DeliveryStep

\* The files behind it and the other tasks that write them change nothing of what is
\* proved of the loop.
THEOREM DeliveryIsLoop == DeliverySpec => Spec
<1>1. DeliveryInit => Init
  BY DEF DeliveryInit
<1> QED
  BY <1>1, StepIsLoop, PTL DEF DeliverySpec, Spec

----------------------------------------------------------------------------
(* The invariant.                                                          *)

FileTypes ==
  /\ files \in [Path -> Content]
  /\ objects \in [Path -> Content]
  /\ part \in {"read", "put", "record", "announce"}
  /\ held \in Content
  /\ contents \in Seq(Content)
  /\ announced \in Nat
  /\ touched \subseteq Path

\* Where the delivery is.
Phase ==
  /\ pc \notin {"deliver", "stuck", "succeeded"} => artifacts = <<>> /\ touched = {}
  /\ part # "read" => pc \in {"deliver", "stuck"}
  /\ part \in {"put", "record"} => executed # <<>> /\ asked[Head(executed)] \in Write
  /\ Len(contents) = Len(artifacts)
  /\ Len(artifacts) = announced + (IF part = "announce" THEN 1 ELSE 0)

\* What is listed was executed, and what is recorded is a file.
Listed ==
  /\ \A k \in DOMAIN executed : ran[executed[k]] > 0
  /\ \A k \in DOMAIN artifacts : asked[artifacts[k]] \in Write

\* Call i wrote path p.
Wrote(i, p) == ran[i] > 0 /\ asked[i] \in Write /\ PathOf[asked[i]] = p

\* The workspace holds what was written last.
Filed ==
  pc # "failed" =>
    \A p \in Path :
      /\ (\E i \in Id : Wrote(i, p)) => files[p] # None
      /\ p \notin touched /\ files[p] # None => files[p] \in Id /\ WroteLast(files[p], p)

\* The store holds every recorded file, and the file about to be recorded.
Stored ==
  /\ \A k \in DOMAIN artifacts :
       LET p == PathOf[asked[artifacts[k]]] IN
         /\ objects[p] # None
         /\ p \notin touched => objects[p] = files[p] /\ contents[k] = files[p]
  /\ part \in {"put", "record"} /\ ThePath \notin touched => held = files[ThePath]
  /\ part = "record" =>
       /\ objects[ThePath] # None
       /\ ThePath \notin touched => objects[ThePath] = files[ThePath]

DeliveryInv == FileTypes /\ Phase /\ Listed /\ Filed /\ Stored
----------------------------------------------------------------------------
(* What the steps do.                                                      *)

\* Nothing that comes after the call at the run's position was executed.
LEMMA NoneAhead ==
  ASSUME TypeOK, Fresh, pc \in {"calls", "resume"}, NEW i \in Id, i[1] = step, i[2] = pos
  PROVE  \A j \in Id : ran[j] > 0 => ~Before(i, j)
<1>1. step \in Nat /\ pos \in Nat /\ \A j \in Id : j[1] \in Nat /\ j[2] \in Nat
  BY LoopAssumption, SMTT(30) DEF TypeOK, Id
<1>2. \A j \in Id : Before(i, j) => j \in Ahead
  BY <1>1 DEF Before, Ahead
<1>3. \A j \in Ahead : ran[j] = 0
  BY DEF Fresh, Live
<1> QED
  BY <1>2, <1>3

\* The tool at hand is run for the first time, after all that ran before.
LEMMA UseToolMove ==
  ASSUME TypeOK, Linked, Fresh, UseTool
  PROVE  \E i \in Id :
           /\ pc \in {"calls", "resume"} /\ pc' \in {"calls", "model", "failed"}
           /\ ran' = [ran EXCEPT ![i] = @ + 1] /\ UNCHANGED <<asked, artifacts>>
           /\ \A j \in Id : ran[j] > 0 => ~Before(i, j)
           /\ executed' \in {executed, Append(executed, i), <<i>>}
           /\ pc' # "failed" => files' = Written(i, asked[i])
           /\ files' = Written(i, asked[i]) \/ files' = files
<1> USE LoopAssumption
<1>1. CASE Resume
  <2>1. /\ checkpoint \in Id /\ checkpoint[1] = step /\ checkpoint[2] = pos /\ pc = "resume"
        /\ step \in Nat /\ pos \in Nat
    <3>1. pc = "resume"
      BY <1>1 DEF Resume, ResumeWith
    <3>2. pos <= MaxCalls /\ checkpoint = Here
      BY <3>1 DEF Linked
    <3>3. Here \in Id /\ Here[1] = step /\ Here[2] = pos
      BY <3>2, HereType
    <3>4. step \in Nat /\ pos \in Nat
      BY DEF TypeOK
    <3> QED
      BY <3>1, <3>2, <3>3, <3>4
  <2>2. \A j \in Id : ran[j] > 0 => ~Before(checkpoint, j)
    BY <2>1, NoneAhead
  <2> QED
    BY <1>1, <2>1, <2>2 DEF UseTool, Resume, ResumeWith
<1>2. ASSUME NEW call \in Call, Execute(call)
      PROVE  \E i \in Id :
               /\ pc \in {"calls", "resume"} /\ pc' \in {"calls", "model", "failed"}
               /\ ran' = [ran EXCEPT ![i] = @ + 1] /\ UNCHANGED <<asked, artifacts>>
               /\ \A j \in Id : ran[j] > 0 => ~Before(i, j)
               /\ executed' \in {executed, Append(executed, i), <<i>>}
               /\ pc' # "failed" => files' = Written(i, asked[i])
               /\ files' = Written(i, asked[i]) \/ files' = files
  <2>1. /\ Here \in Id /\ Here[1] = step /\ Here[2] = pos /\ pc = "calls"
        /\ step \in Nat /\ pos \in Nat
    BY <1>2, HereType, SMTT(30) DEF Execute, Pending, TypeOK
  <2>2. \A j \in Id : ran[j] > 0 => ~Before(Here, j)
    BY <2>1, NoneAhead
  <2>3. pc' \in {"calls", "failed"} /\ executed' \in {executed, Append(executed, Here)}
    BY <1>2, <2>1 DEF Execute
  <2> QED
    BY <1>2, <2>1, <2>2, <2>3 DEF UseTool, Execute
<1> QED
  BY <1>1, <1>2 DEF UseTool

\* The loop's other steps record nothing, and change the conversation at most where
\* nothing was executed.
Unrecorded ==
  /\ UNCHANGED <<deliveryVars, executed, artifacts, ran>>
  /\ \A i \in Id : ran[i] > 0 => asked'[i] = asked[i]
  /\ pc \in {"deliver", "stuck", "succeeded"} =>
       asked' = asked /\ pc' \in {"stuck", "succeeded"}
  /\ pc' \in {"stuck", "succeeded"} => pc = "deliver"
  /\ pc' = "succeeded" => part = "read"
  /\ pc = "failed" => pc' = "failed"

\* No step of the loop or of the user records an artifact.
LEMMA LoopMove ==
  ASSUME TypeOK, Fresh, LoopStep \/ UserStep
  PROVE  Unrecorded
<1> USE LoopAssumption DEF history, routing, conversation, Unrecorded
<1>0. UNCHANGED deliveryVars
  BY DEF LoopStep, UserStep
<1>1. CASE Unavailable \/ ModelRaises \/ FinalAnswer \/ NextStep
  BY <1>0, <1>1 DEF Unavailable, ModelRaises, FinalAnswer, NextStep, Responds, Can, Pending, Fail
<1>2. CASE UserApproves \/ UserDenies
  BY <1>0, <1>2 DEF UserApproves, UserDenies, Fail
<1>3. CASE DeliveryFails \/ (part = "read" /\ Succeed)
  BY <1>0, <1>3 DEF DeliveryFails, Succeed
<1>4. CASE \E call \in Call : RejectCall(call) \/ Pause(call) \/ Deny(call)
  BY <1>0, <1>4 DEF RejectCall, Pause, Deny, Pending, Fail
<1>5. ASSUME NEW calls \in Response, ToolCalls(calls) PROVE Unrecorded
  <2>1. pc = "model" /\ pc' \in {"failed", "calls"} /\ UNCHANGED <<executed, artifacts, ran>>
    BY <1>5 DEF ToolCalls, Responds, Can
  <2>2. \A i \in Id : i[1] = step => ran[i] = 0
    <3>1. \A i \in Id : i[1] = step => i \in Ahead
      BY <2>1 DEF Ahead
    <3> QED
      BY <2>1, <3>1 DEF Fresh, Live
  <2>3. \A i \in Id : i[1] # step => asked'[i] = asked[i]
    BY <1>5 DEF ToolCalls, TypeOK
  <2>4. \A i \in Id : ran[i] > 0 => asked'[i] = asked[i]
    BY <2>2, <2>3
  <2> QED
    BY <1>0, <2>1, <2>4
<1> QED
  <2> HIDE DEF Unrecorded
  <2> QED
    BY <1>1, <1>2, <1>3, <1>4, <1>5 DEF LoopStep, UserStep
----------------------------------------------------------------------------
(* The invariant is inductive.                                             *)

LoopInv == TypeOK /\ Linked /\ Fresh

\* The tool whose artifact is being made: a file that was written.
LEMMA AtType ==
  ASSUME TypeOK, executed # <<>>, asked[Head(executed)] \in Write
  PROVE  Head(executed) \in Id /\ ThePath \in Path
BY PathAssumption, SeqTypes DEF TypeOK, ThePath

\* Every step keeps the types of the workspace, the store and the tables.
LEMMA NextFileTypes ==
  ASSUME LoopInv, DeliveryInv, [DeliveryNext]_allVars
  PROVE  FileTypes'
<1> USE PathAssumption DEF LoopInv, DeliveryInv, FileTypes
<1>1. CASE UseTool
  <2>1. PICK i \in Id : files' = Written(i, asked[i]) \/ files' = files
    BY <1>1, UseToolMove
  <2>2. files' \in [Path -> Content]
    BY <2>1 DEF Written, Content
  <2> QED
    BY <1>1, <2>2 DEF UseTool
<1>2. CASE LoopStep \/ UserStep
  BY <1>2, LoopMove DEF Unrecorded, deliveryVars
<1>3. CASE SkipTool
  BY <1>3 DEF SkipTool, deliveryVars
<1>4. CASE ReadFile \/ PutFile
  <2>1. ThePath \in Path
    BY <1>4, AtType DEF ReadFile, PutFile, At
  <2> QED
    BY <1>4, <2>1 DEF ReadFile, PutFile
<1>5. CASE RecordRow
  BY <1>5, SeqTypes DEF RecordRow
<1>6. CASE Announce
  BY <1>6 DEF Announce, Content
<1>7. ASSUME NEW p \in Path, OtherWrites(p) \/ OtherUploads(p) PROVE FileTypes'
  BY <1>7 DEF OtherWrites, OtherUploads, Content
<1>8. CASE UNCHANGED allVars
  BY <1>8 DEF allVars, deliveryVars
<1> QED
  BY <1>1, <1>2, <1>3, <1>4, <1>5, <1>6, <1>7, <1>8 DEF DeliveryNext, DeliveryStep

\* Every step keeps Phase.
LEMMA NextPhase ==
  ASSUME LoopInv, DeliveryInv, [DeliveryNext]_allVars
  PROVE  Phase'
<1> USE DEF LoopInv, DeliveryInv, FileTypes, Phase
<1>0. artifacts \in Seq(Id) /\ executed \in Seq(Id) /\ Len(artifacts) \in Nat
  BY DEF TypeOK
<1>1. CASE UseTool
  <2>1. /\ pc \in {"calls", "resume"} /\ pc' \in {"calls", "model", "failed"}
        /\ UNCHANGED <<asked, artifacts, part, contents, announced, touched>>
    BY <1>1, UseToolMove DEF UseTool
  <2> QED
    BY <2>1
<1>2. CASE LoopStep \/ UserStep
  <2>1. Unrecorded
    BY <1>2, LoopMove
  <2>2. part # "read" => UNCHANGED asked
    BY <2>1 DEF Unrecorded
  <2> QED
    BY <2>1, <2>2 DEF Unrecorded, deliveryVars
<1>3. CASE SkipTool
  BY <1>3 DEF SkipTool, RecordArtifact, deliveryVars
<1>4. CASE ReadFile \/ PutFile
  BY <1>4 DEF ReadFile, PutFile, At, vars, conversation
<1>5. CASE RecordRow
  <2>1. /\ pc = "deliver" /\ pc' = pc /\ part = "record" /\ part' = "announce"
        /\ artifacts' = Append(artifacts, Head(executed)) /\ contents' = Append(contents, held)
        /\ announced' = announced /\ Head(executed) \in Id
    BY <1>5, AtType DEF RecordRow, RecordArtifact, At
  <2>2. Len(artifacts') = Len(artifacts) + 1 /\ Len(contents') = Len(contents) + 1
    BY <1>0, <2>1
  <2> QED
    BY <2>1, <2>2
<1>6. CASE Announce
  BY <1>0, <1>6 DEF Announce, vars, conversation
<1>7. ASSUME NEW p \in Path, OtherWrites(p) \/ OtherUploads(p) PROVE Phase'
  BY <1>7 DEF OtherWrites, OtherUploads, vars, conversation
<1>8. CASE UNCHANGED allVars
  BY <1>8 DEF allVars, deliveryVars, vars, conversation
<1> QED
  BY <1>1, <1>2, <1>3, <1>4, <1>5, <1>6, <1>7, <1>8 DEF DeliveryNext, DeliveryStep
\* What is executed is listed as such.
LEMMA ListedOfTail ==
  ASSUME NEW s \in Seq(Id), s # <<>>
  PROVE  /\ Head(s) = s[1] /\ 1 \in DOMAIN s
         /\ \A k \in DOMAIN Tail(s) : Tail(s)[k] = s[k + 1] /\ k + 1 \in DOMAIN s
OBVIOUS

\* The elements of an appended list, by index.
LEMMA IndexesOfAppend ==
  ASSUME NEW S, NEW s \in Seq(S), NEW e \in S
  PROVE  /\ Append(s, e)[Len(s) + 1] = e
         /\ \A k \in DOMAIN s : Append(s, e)[k] = s[k]
         /\ \A k \in DOMAIN Append(s, e) : k \in DOMAIN s \/ k = Len(s) + 1
OBVIOUS

\* Every step keeps Listed.
LEMMA NextListed ==
  ASSUME LoopInv, DeliveryInv, [DeliveryNext]_allVars
  PROVE  Listed'
<1> USE DEF LoopInv, DeliveryInv, Listed
<1>0. artifacts \in Seq(Id) /\ executed \in Seq(Id)
  BY DEF TypeOK
<1>1. CASE UseTool
  <2>1. PICK i \in Id :
          /\ pc \in {"calls", "resume"}
          /\ ran' = [ran EXCEPT ![i] = @ + 1] /\ UNCHANGED <<asked, artifacts>>
          /\ executed' \in {executed, Append(executed, i), <<i>>}
    BY <1>1, UseToolMove
  <2>2. \A j \in Id : ran[j] > 0 => ran'[j] > 0
    BY <2>1 DEF TypeOK
  <2>3. ran'[i] > 0
    BY <2>1 DEF TypeOK
  <2>4. \A k \in DOMAIN executed : executed[k] \in Id
    BY <1>0
  <2>5. \A k \in DOMAIN executed' : ran'[executed'[k]] > 0
    <3>1. CASE executed' = executed
      BY <2>2, <2>4, <3>1
    <3>2. CASE executed' = <<i>>
      BY <2>3, <3>2
    <3>3. CASE executed' = Append(executed, i)
      BY <1>0, <2>2, <2>3, <2>4, <3>3, IndexesOfAppend
    <3> QED
      BY <2>1, <3>1, <3>2, <3>3
  <2> QED
    BY <2>1, <2>5
<1>2. CASE LoopStep \/ UserStep
  <2>1. Unrecorded
    BY <1>2, LoopMove
  <2>2. artifacts # <<>> => UNCHANGED asked
    BY <2>1 DEF Unrecorded, Phase
  <2> QED
    BY <1>0, <2>1, <2>2 DEF Unrecorded
<1>3. CASE SkipTool \/ RecordRow
  <2>1. executed # <<>> /\ executed' = Tail(executed) /\ UNCHANGED <<asked, ran>>
    BY <1>3 DEF SkipTool, RecordRow, RecordArtifact, conversation, history
  <2>2. \/ artifacts' = artifacts
        \/ artifacts' = Append(artifacts, Head(executed)) /\ asked[Head(executed)] \in Write
    BY <1>3 DEF SkipTool, RecordRow, RecordArtifact
  <2>3. \A k \in DOMAIN executed' : ran'[executed'[k]] > 0
    BY <1>0, <2>1, ListedOfTail
  <2>4. Head(executed) \in Id
    BY <1>0, <2>1
  <2>5. \A k \in DOMAIN artifacts' : asked'[artifacts'[k]] \in Write
    <3>1. CASE artifacts' = artifacts
      BY <2>1, <3>1
    <3>2. CASE artifacts' = Append(artifacts, Head(executed)) /\ asked[Head(executed)] \in Write
      <4>1. /\ artifacts'[Len(artifacts) + 1] = Head(executed)
            /\ \A k \in DOMAIN artifacts : artifacts'[k] = artifacts[k]
            /\ \A k \in DOMAIN artifacts' : k \in DOMAIN artifacts \/ k = Len(artifacts) + 1
        BY <1>0, <2>4, <3>2, IndexesOfAppend
      <4> QED
        BY <2>1, <3>2, <4>1
    <3> QED
      BY <2>2, <3>1, <3>2
  <2> QED
    BY <2>3, <2>5
<1>4. CASE ReadFile \/ PutFile \/ Announce
  BY <1>4 DEF ReadFile, PutFile, Announce, vars, conversation, history
<1>5. ASSUME NEW p \in Path, OtherWrites(p) \/ OtherUploads(p) PROVE Listed'
  BY <1>5 DEF OtherWrites, OtherUploads, vars, conversation, history
<1>6. CASE UNCHANGED allVars
  BY <1>6 DEF allVars, vars, conversation, history
<1> QED
  BY <1>1, <1>2, <1>3, <1>4, <1>5, <1>6 DEF DeliveryNext, DeliveryStep

\* Who wrote a path, and who wrote it last, is not changed by what leaves the executed
\* calls and the files alone.
LEMMA FiledStays ==
  ASSUME DeliveryInv, ran' = ran, \A i \in Id : ran[i] > 0 => asked'[i] = asked[i],
         pc = "failed" => pc' = "failed",
         \A p \in Path : files'[p] = files[p] \/ (p \in touched' /\ files'[p] # None),
         touched \subseteq touched'
  PROVE  Filed'
<1>1. \A i \in Id, p \in Path : Wrote(i, p)' <=> Wrote(i, p)
  BY DEF Wrote
<1>2. \A i \in Id, p \in Path : WroteLast(i, p) => WroteLast(i, p)'
  BY DEF WroteLast
<1> QED
  BY <1>1, <1>2 DEF DeliveryInv, Filed

\* Every step keeps Filed.
LEMMA NextFiled ==
  ASSUME LoopInv, DeliveryInv, [DeliveryNext]_allVars
  PROVE  Filed'
<1> USE DEF LoopInv
<1>1. CASE UseTool
  <2> SUFFICES ASSUME pc' # "failed", NEW p \in Path
               PROVE  /\ (\E i \in Id : Wrote(i, p)') => files'[p] # None
                      /\ p \notin touched' /\ files'[p] # None
                           => files'[p] \in Id /\ WroteLast(files[p], p)'
    BY DEF Filed
  <2>1. PICK i \in Id :
          /\ pc \in {"calls", "resume"}
          /\ ran' = [ran EXCEPT ![i] = @ + 1] /\ UNCHANGED <<asked, artifacts>>
          /\ \A j \in Id : ran[j] > 0 => ~Before(i, j)
          /\ files' = Written(i, asked[i])
    BY <1>1, UseToolMove
  <2>2. \A j \in Id : ran'[j] > 0 <=> j = i \/ ran[j] > 0
    BY <2>1 DEF TypeOK
  <2>3. ~Before(i, i)
    BY LoopAssumption DEF Before, Id
  <2>4. CASE asked[i] \in Write /\ PathOf[asked[i]] = p
    <3>1. files'[p] = i
      BY <2>1, <2>4 DEF Written, DeliveryInv, FileTypes
    <3>2. WroteLast(i, p)'
      BY <2>1, <2>2, <2>3, <2>4 DEF WroteLast
    <3> QED
      BY <3>1, <3>2, PathAssumption DEF WroteLast
  <2>5. CASE ~(asked[i] \in Write /\ PathOf[asked[i]] = p)
    <3>1. files'[p] = files[p]
      BY <2>1, <2>5, PathAssumption DEF Written, DeliveryInv, FileTypes
    <3>2. \A j \in Id : Wrote(j, p)' => Wrote(j, p)
      BY <2>1, <2>2, <2>5 DEF Wrote
    <3>3. \A j \in Id : WroteLast(j, p) => WroteLast(j, p)'
      BY <2>1, <2>2, <2>5 DEF WroteLast
    <3> QED
      BY <1>1, <2>1, <3>1, <3>2, <3>3 DEF DeliveryInv, Filed, UseTool, WroteLast
  <2> QED
    BY <2>4, <2>5
<1>2. CASE LoopStep \/ UserStep
  BY <1>2, LoopMove, FiledStays DEF Unrecorded, deliveryVars
<1>3. CASE SkipTool \/ RecordRow
  BY <1>3, FiledStays DEF SkipTool, RecordRow, RecordArtifact, conversation, history, deliveryVars
<1>4. CASE ReadFile \/ PutFile \/ Announce
  BY <1>4, FiledStays DEF ReadFile, PutFile, Announce, vars, conversation, history
<1>5. ASSUME NEW p \in Path, OtherWrites(p) \/ OtherUploads(p) PROVE Filed'
  <2>1. \A q \in Path : files'[q] = files[q] \/ (q \in touched' /\ files'[q] # None)
    BY <1>5, PathAssumption DEF OtherWrites, OtherUploads, DeliveryInv, FileTypes
  <2> QED
    BY <1>5, <2>1, FiledStays DEF OtherWrites, OtherUploads, vars, conversation, history
<1>6. CASE UNCHANGED allVars
  BY <1>6, FiledStays DEF allVars, vars, conversation, history, deliveryVars
<1> QED
  BY <1>1, <1>2, <1>3, <1>4, <1>5, <1>6 DEF DeliveryNext, DeliveryStep

\* Every step keeps Stored.
LEMMA NextStored ==
  ASSUME LoopInv, DeliveryInv, [DeliveryNext]_allVars
  PROVE  Stored'
<1> USE DEF LoopInv, DeliveryInv
<1>0. /\ artifacts \in Seq(Id) /\ executed \in Seq(Id)
      /\ \A k \in DOMAIN artifacts : artifacts[k] \in Id /\ PathOf[asked[artifacts[k]]] \in Path
  BY PathAssumption DEF TypeOK, Listed
<1>1. CASE UseTool
  <2>1. artifacts = <<>> /\ UNCHANGED <<artifacts, part>> /\ part = "read"
    BY <1>1, UseToolMove DEF UseTool, Phase
  <2> QED
    BY <2>1 DEF Stored
<1>2. CASE LoopStep \/ UserStep
  <2>1. Unrecorded
    BY <1>2, LoopMove
  <2>2. UNCHANGED <<files, objects, part, held, contents, touched, executed, artifacts>>
    BY <2>1 DEF Unrecorded, deliveryVars
  <2>3. artifacts # <<>> \/ part # "read" => UNCHANGED asked
    BY <2>1 DEF Unrecorded, Phase
  <2>4. CASE artifacts = <<>> /\ part = "read"
    BY <2>2, <2>4 DEF Stored
  <2>5. CASE UNCHANGED asked
    BY <2>2, <2>5 DEF Stored, ThePath
  <2> QED
    BY <2>3, <2>4, <2>5
<1>3. CASE SkipTool
  <2>1. artifacts' = artifacts /\ part = "read" /\ UNCHANGED asked
    BY <1>3 DEF SkipTool, RecordArtifact, conversation
  <2> QED
    BY <1>3, <2>1 DEF SkipTool, deliveryVars, Stored
<1>4. CASE ReadFile
  <2>1. UNCHANGED <<asked, executed, artifacts, files, objects, contents, touched>>
    BY <1>4 DEF ReadFile, vars, conversation
  <2> QED
    BY <1>4, <2>1 DEF ReadFile, Stored, ThePath
<1>5. CASE PutFile
  <2>1. /\ UNCHANGED <<asked, executed, artifacts, files, held, contents, touched>>
        /\ part = "put" /\ part' = "record" /\ pc = "deliver"
        /\ objects' = [objects EXCEPT ![ThePath] = files[ThePath]]
    BY <1>5 DEF PutFile, At, vars, conversation
  <2>2. Head(executed) \in Id /\ ThePath \in Path /\ ThePath' = ThePath
    BY <1>5, <2>1, AtType DEF PutFile, At, ThePath
  <2>3. Wrote(Head(executed), ThePath)
    BY <1>0, <1>5, ListedOfTail DEF PutFile, At, Wrote, Listed, ThePath
  <2>4. files[ThePath] # None
    BY <2>1, <2>2, <2>3 DEF Filed
  <2>5. \A p \in Path : objects'[p] = IF p = ThePath THEN files[p] ELSE objects[p]
    BY <2>1 DEF FileTypes
  <2> QED
    BY <1>0, <2>1, <2>2, <2>4, <2>5 DEF Stored
<1>6. CASE RecordRow
  <2>1. /\ UNCHANGED <<asked, files, objects, held, touched>>
        /\ part = "record" /\ part' = "announce"
        /\ artifacts' = Append(artifacts, Head(executed)) /\ contents' = Append(contents, held)
    BY <1>6 DEF RecordRow, RecordArtifact, At, conversation
  <2>2. Head(executed) \in Id /\ Len(contents) = Len(artifacts) /\ contents \in Seq(Content)
    BY <1>6, AtType DEF RecordRow, At, FileTypes, Phase
  <2>3. held \in Content
    BY DEF FileTypes
  <2>4. /\ artifacts'[Len(artifacts) + 1] = Head(executed)
        /\ \A k \in DOMAIN artifacts : artifacts'[k] = artifacts[k]
        /\ \A k \in DOMAIN artifacts' : k \in DOMAIN artifacts \/ k = Len(artifacts) + 1
    BY <1>0, <2>1, <2>2, IndexesOfAppend
  <2>5. /\ contents'[Len(artifacts) + 1] = held
        /\ \A k \in DOMAIN artifacts : contents'[k] = contents[k]
    BY <1>0, <2>1, <2>2, <2>3, IndexesOfAppend
  <2> SUFFICES ASSUME NEW k \in DOMAIN artifacts', NEW p, p = PathOf[asked[artifacts'[k]]]
               PROVE  /\ objects[p] # None
                      /\ p \notin touched => objects[p] = files[p] /\ contents'[k] = files[p]
    BY <2>1, ZenonT(60) DEF Stored
  <2>6. CASE k \in DOMAIN artifacts
    BY <2>4, <2>5, <2>6 DEF Stored
  <2>7. CASE k = Len(artifacts) + 1
    BY <2>1, <2>4, <2>5, <2>7 DEF Stored, ThePath
  <2> QED
    BY <2>4, <2>6, <2>7
<1>7. CASE Announce
  <2>1. UNCHANGED <<asked, executed, artifacts, files, objects, contents, touched>>
    BY <1>7 DEF Announce, vars, conversation
  <2> QED
    BY <1>7, <2>1 DEF Announce, Stored
<1>8. ASSUME NEW q \in Path, OtherWrites(q) PROVE Stored'
  <2>1. /\ UNCHANGED <<asked, executed, artifacts, objects, part, held, contents>>
        /\ \A p \in Path : p \notin touched' => p \notin touched /\ files'[p] = files[p]
    BY <1>8 DEF OtherWrites, vars, conversation, FileTypes
  <2>2. part \in {"put", "record"} => ThePath \in Path
    BY AtType DEF Phase
  <2>3. ThePath' = ThePath
    BY <2>1 DEF ThePath
  <2> QED
    BY <1>0, <2>1, <2>2, <2>3 DEF Stored
<1>9. ASSUME NEW q \in Path, OtherUploads(q) PROVE Stored'
  <2>1. /\ UNCHANGED <<asked, executed, artifacts, files, part, held, contents, touched>>
        /\ files[q] # None
        /\ \A p \in Path : objects'[p] = IF p = q THEN files[q] ELSE objects[p]
    BY <1>9 DEF OtherUploads, vars, conversation, FileTypes
  <2>2. part \in {"put", "record"} => ThePath \in Path
    BY AtType DEF Phase
  <2>3. ThePath' = ThePath
    BY <2>1 DEF ThePath
  <2> QED
    BY <1>0, <2>1, <2>2, <2>3 DEF Stored
<1>10. CASE UNCHANGED allVars
  BY <1>10 DEF allVars, deliveryVars, vars, conversation, Stored, ThePath
<1> QED
  BY <1>1, <1>2, <1>3, <1>4, <1>5, <1>6, <1>7, <1>8, <1>9, <1>10 DEF DeliveryNext, DeliveryStep

\* Every reachable state of the delivery satisfies the invariant.
LEMMA DeliveryInvariant == DeliverySpec => [](LoopInv /\ DeliveryInv)
<1>1. DeliveryInit => LoopInv
  BY InitTypes DEF DeliveryInit, LoopInv, Init, Fresh, Ahead
<1>2. DeliveryInit => DeliveryInv
  BY PathAssumption DEF DeliveryInit, Init, DeliveryInv, FileTypes, Phase, Listed, Filed, Stored,
     Wrote, Content
<1>3. LoopInv /\ DeliveryInv /\ [DeliveryNext]_allVars => LoopInv' /\ DeliveryInv'
  <2> SUFFICES ASSUME LoopInv, DeliveryInv, [DeliveryNext]_allVars
               PROVE  LoopInv' /\ DeliveryInv'
    OBVIOUS
  <2>1. LoopInv'
    BY StepIsLoop, NextTypes, NextFresh DEF LoopInv
  <2>2. DeliveryInv'
    BY NextFileTypes, NextPhase, NextListed, NextFiled, NextStored DEF DeliveryInv
  <2> QED
    BY <2>1, <2>2
<1> QED
  BY <1>1, <1>2, <1>3, PTL DEF DeliverySpec

\* Whatever other tasks of the bot do to the files: what is announced is recorded, what
\* is recorded is stored, and it is this task's last content if no other touched it.
THEOREM DeliveredIsStored == DeliverySpec => []ArtifactsAreStored
<1>1. LoopInv /\ DeliveryInv => ArtifactsAreStored
  <2> SUFFICES ASSUME LoopInv, DeliveryInv PROVE ArtifactsAreStored
    OBVIOUS
  <2> USE DEF LoopInv, DeliveryInv
  <2>1. announced <= Len(artifacts) /\ (pc = "succeeded" => announced = Len(artifacts))
    BY DEF Phase, FileTypes
  <2>2. ASSUME NEW k \in DOMAIN artifacts, NEW p, p = PathOf[asked[artifacts[k]]]
        PROVE  /\ objects[p] # None
               /\ p \notin touched => objects[p] = contents[k] /\ WroteLast(contents[k], p)
    <3>1. p \in Path
      BY <2>2, PathAssumption DEF Listed
    <3>2. pc # "failed"
      BY DEF Phase
    <3> QED
      BY <2>2, <3>1, <3>2 DEF Stored, Filed
  <2> QED
    BY <2>1, <2>2 DEF ArtifactsAreStored
<1> QED
  BY <1>1, DeliveryInvariant, PTL
=============================================================================
