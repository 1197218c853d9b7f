--------------------------- MODULE AgentDelivery ---------------------------
(***************************************************************************)
(* AgentLoop with the files behind it: the workspace that all tasks of a   *)
(* bot share, the artifact store, and ExecutionCoordinator's               *)
(* _record_file_artifact step by step.  Another task of the bot may write  *)
(* and upload the same path in between.                                    *)
(*                                                                         *)
(* A content is named by the call that wrote it; a hash and a size are     *)
(* those of the content they were taken of.  The storage key is made of    *)
(* the bot and the path, so it is the path here.  What other tasks do      *)
(* before this task delivers its files has no effect that they could not   *)
(* have then: their steps are taken during the delivery only.              *)
(***************************************************************************)
EXTENDS AgentLoop

CONSTANTS
  Path,    \* paths in the workspace of the bot
  PathOf,  \* the path that each files.write call writes
  Other    \* the content written by another task

ASSUME PathAssumption ==
  PathOf \in [Write -> Path] /\ Other \notin Id /\ None \notin Id /\ Other # None

VARIABLES
  files,      \* the workspace: content of each path
  objects,    \* the artifact store: content under each key
  part,       \* next step of _record_file_artifact
  held,       \* the content it has read and hashed
  contents,   \* artifacts table: the content whose hash each artifact carries
  announced,  \* number of artifact_created events
  touched     \* history: paths another task wrote during the delivery

deliveryVars == <<files, objects, part, held, contents, announced, touched>>
allVars == <<vars, deliveryVars>>

Content == Id \cup {Other, None}

DeliveryInit ==
  /\ Init
  /\ files = [p \in Path |-> None]
  /\ objects = [p \in Path |-> None]
  /\ part = "read"
  /\ held = None
  /\ contents = <<>>
  /\ announced = 0
  /\ touched = {}

----------------------------------------------------------------------------
\* FileWriteTool.execute: call i writes its path.
Written(i, call) == IF call \in Write THEN [files EXCEPT ![PathOf[call]] = i] ELSE files

\* A tool that raises may have written its file or not.
UseTool ==
  LET i == IF pc = "resume" THEN checkpoint ELSE Here IN
  /\ Resume \/ \E call \in Call : Execute(call)
  /\ files' = Written(i, asked[i]) \/ (pc' = "failed" /\ files' = files)
  /\ UNCHANGED <<objects, part, held, contents, announced, touched>>

\* The steps of the loop that touch no file.
LoopStep ==
  /\ \/ Unavailable \/ ModelRaises \/ FinalAnswer \/ NextStep \/ DeliveryFails
     \/ \E calls \in Response : ToolCalls(calls)
     \/ \E call \in Call : RejectCall(call) \/ Pause(call) \/ Deny(call)
     \/ part = "read" /\ Succeed
  /\ UNCHANGED deliveryVars

UserStep == (UserApproves \/ UserDenies) /\ UNCHANGED deliveryVars

\* The next executed tool is a files.write whose artifact is at step p.
At(p) == pc = "deliver" /\ part = p /\ executed # <<>> /\ asked[Head(executed)] \in Write

\* The path of the file at hand.
ThePath == PathOf[asked[Head(executed)]]

SkipTool ==
  /\ part = "read" /\ executed # <<>> /\ asked[Head(executed)] \notin Write
  /\ RecordArtifact
  /\ UNCHANGED deliveryVars

\* Mutant: the row is made before, and without, the upload.
ReadUnstored ==
  /\ At("read")
  /\ held' = files[ThePath]
  /\ part' = "record"
  /\ UNCHANGED <<vars, files, objects, contents, announced, touched>>

\* read_bytes: size and hash are taken of what is read here; ...
ReadFile ==
  /\ At("read")
  /\ held' = files[ThePath]
  /\ part' = "put"
  /\ UNCHANGED <<vars, files, objects, contents, announced, touched>>

\* ... put_file opens the file again, and replaces what the key named before.
PutFile ==
  /\ At("put")
  /\ objects' = [objects EXCEPT ![ThePath] = files[ThePath]]
  /\ part' = "record"
  /\ UNCHANGED <<vars, files, held, contents, announced, touched>>

RecordRow ==
  /\ At("record")
  /\ RecordArtifact
  /\ contents' = Append(contents, held)
  /\ part' = "announce"
  /\ UNCHANGED <<files, objects, held, announced, touched>>

Announce ==
  /\ pc = "deliver" /\ part = "announce"
  /\ announced' = announced + 1
  /\ part' = "read"
  /\ held' = None
  /\ UNCHANGED <<vars, files, objects, contents, touched>>

\* Another task of the bot writes the path, ...
OtherWrites(p) ==
  /\ pc = "deliver"
  /\ files' = [files EXCEPT ![p] = Other]
  /\ touched' = touched \cup {p}
  /\ UNCHANGED <<vars, objects, part, held, contents, announced>>

\* ... or delivers the file that it wrote there, before or after this task did.
OtherUploads(p) ==
  /\ pc = "deliver" /\ files[p] # None
  /\ objects' = [objects EXCEPT ![p] = files[p]]
  /\ UNCHANGED <<vars, files, part, held, contents, announced, touched>>

----------------------------------------------------------------------------
DeliveryStep ==
  \/ UseTool \/ LoopStep \/ SkipTool
  \/ ReadFile \/ PutFile \/ RecordRow \/ Announce

DeliveryNext ==
  \/ DeliveryStep \/ UserStep
  \/ \E p \in Path : OtherWrites(p) \/ OtherUploads(p)

DeliverySpec == DeliveryInit /\ [][DeliveryNext]_allVars

FairDeliverySpec == DeliverySpec /\ WF_allVars(DeliveryStep)

----------------------------------------------------------------------------
\* Call i was the last that wrote path p.
WroteLast(i, p) ==
  /\ ran[i] > 0 /\ asked[i] \in Write /\ PathOf[asked[i]] = p
  /\ \A j \in Id : ran[j] > 0 /\ asked[j] \in Write /\ PathOf[asked[j]] = p => ~Before(i, j)

\* What is announced is recorded and what is recorded is stored.  Unless another task
\* wrote the path meanwhile, hash and object are those of the content that this task
\* wrote last, however often it wrote the path and wherever the delivery stopped.
ArtifactsAreStored ==
  /\ announced <= Len(artifacts)
  /\ pc = "succeeded" => announced = Len(artifacts)
  /\ \A k \in DOMAIN artifacts :
       LET p == PathOf[asked[artifacts[k]]] IN
         /\ objects[p] # None
         /\ p \notin touched => objects[p] = contents[k] /\ WroteLast(contents[k], p)

=============================================================================
