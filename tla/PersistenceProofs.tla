-------------------------- MODULE PersistenceProofs --------------------------
(***************************************************************************)
(* What TLAPS proves of saving and opening, for all paths, documents and   *)
(* files of other programs, through every failure and every kill: a        *)
(* document's file is replaced whole or not at all, a save that is not     *)
(* killed leaves nothing beside it, what was saved can be read again as it *)
(* was, and the document that is open is whole whatever was opened, but    *)
(* for its ids once they have come back to 0.                              *)
(*                                                                         *)
(* The first two rest on what is in the temporary file while a save runs:  *)
(* the members that were written so far of a document that cannot change   *)
(* meanwhile (IInv).  The others rest on what the reader makes of a file,  *)
(* member by member and entry by entry: a document that is Sound from      *)
(* every file it accepts, and the same document from the members that were *)
(* written of one (DInv).  Ids are behind their counters until the largest *)
(* has been read or handed out, which is what Solid adds to Sound.         *)
(***************************************************************************)
EXTENDS Persistence, CommandsProofs

Stages == {"idle", "write", "replace"}

Typed ==
  /\ DOMAIN files = FileNames
  /\ DOMAIN saver = {"stage", "path", "written"}
  /\ saver.stage \in Stages
  /\ saver.path \in Paths
  /\ saver.written \in Nat
  /\ crashed \in BOOLEAN

Complete(doc) == [members |-> Written(doc), whole |-> TRUE]

\* No temporary file but that of the save that runs, and none after a kill is claimed.
OnlyOwnTemp ==
  ~crashed =>
    \A path \in Paths :
      saver.stage = "idle" \/ path # saver.path => files[TempName(path)] = Missing

\* A temporary file that is to replace the target is complete.
TempComplete ==
  saver.stage = "replace" => files[TempName(saver.path)] = Complete(document)

\* A document has five members, and the save goes on to the rename with the last one.
MoreToWrite == saver.stage = "write" => saver.written \in 0 .. 4

IInv == Typed /\ OnlyOwnTemp /\ TempComplete /\ MoreToWrite
-----------------------------------------------------------------------------
\* The file of a document, its temporary file and those of other documents have different names.
LEMMA FileNamesDiffer ==
  /\ \A path \in Paths : TargetName(path) \in FileNames /\ TempName(path) \in FileNames
  /\ \A path, other \in Paths :
       /\ TargetName(path) # TempName(other)
       /\ path # other => /\ TargetName(path) # TargetName(other)
                          /\ TempName(path) # TempName(other)
BY DEF FileNames, TargetName, TempName

\* All of the members of a document are the members of the document.
LEMMA WrittenWhole ==
  ASSUME NEW doc
  PROVE  SubSeq(Written(doc), 1, Len(Written(doc))) = Written(doc) /\ Len(Written(doc)) = 5
<1> DEFINE version == [version |-> 2]
           nextId  == [nextId |-> doc.nextId]
           active  == [active |-> doc.active]
           layers  == [layers |-> [i \in DOMAIN doc.layers |-> LayerEntry(doc.layers[i])]]
           objects == [objects |-> [i \in DOMAIN doc.objects |-> ObjectEntry(doc.objects[i])]]
           members == {version, nextId, active, layers, objects}
<1>1. Written(doc) = <<version, nextId, active, layers, objects>>
  BY DEF Written
<1>2. /\ version \in members /\ nextId \in members /\ active \in members
      /\ layers \in members /\ objects \in members
  OBVIOUS
<1> HIDE DEF members, version, nextId, active, layers, objects
<1>3. Written(doc) \in Seq(members)
  BY <1>1, <1>2
<1>4. Len(Written(doc)) = 5
  BY <1>1, <1>2
<1> QED
  BY <1>3, <1>4, SubSeqFull
-----------------------------------------------------------------------------
\* At first there is no save and no temporary file.
LEMMA InitInv == Init => IInv
<1> SUFFICES ASSUME Init PROVE IInv
  OBVIOUS
<1>1. /\ files = [name \in FileNames |-> Missing]
      /\ saver = [stage |-> "idle", path |-> Startup, written |-> 0]
      /\ crashed = FALSE
  BY DEF Init, Idle
<1>2. Typed
  BY <1>1, PathAssumption DEF Typed, Stages
<1>3. OnlyOwnTemp
  BY <1>1, FileNamesDiffer DEF OnlyOwnTemp
<1>4. TempComplete /\ MoreToWrite
  BY <1>1 DEF TempComplete, MoreToWrite
<1> QED
  BY <1>2, <1>3, <1>4 DEF IInv

\* A save that begins clears its own temporary file and no other.
LEMMA OpenTempStep ==
  ASSUME IInv, NEW path \in Paths, OpenTemp(path)
  PROVE  IInv'
<1>1. /\ saver.stage = "idle"
      /\ saver' = [stage |-> "write", path |-> path, written |-> 0]
      /\ files' = [files EXCEPT ![TempName(path)] = Missing]
      /\ crashed' = crashed
  BY DEF OpenTemp
<1>2. Typed'
  BY <1>1 DEF IInv, Typed, Stages
<1>3. OnlyOwnTemp'
  BY <1>1, FileNamesDiffer DEF IInv, Typed, OnlyOwnTemp
<1>4. TempComplete' /\ MoreToWrite'
  BY <1>1 DEF TempComplete, MoreToWrite
<1> QED
  BY <1>2, <1>3, <1>4 DEF IInv

\* One more member is written, of a document that has not changed.
LEMMA WriteStep ==
  ASSUME IInv, WriteMember
  PROVE  IInv'
<1> DEFINE members == Written(document)
           written == saver.written + 1
           stage   == IF written = Len(members) THEN "replace" ELSE saver.stage
           partial == [members |-> SubSeq(members, 1, written), whole |-> written = Len(members)]
<1>1. /\ saver.stage = "write"
      /\ saver' = [saver EXCEPT !.written = written, !.stage = stage]
      /\ files' = [files EXCEPT ![TempName(saver.path)] = partial]
      /\ document' = document /\ crashed' = crashed
  BY DEF WriteMember
<1>2. stage = "replace" => partial = Complete(document)
  BY <1>1, WrittenWhole DEF Complete
<1>3. /\ stage \in Stages /\ stage # "idle" /\ written \in Nat
      /\ stage = "write" => written \in 0 .. 4
  <2>1. Len(members) = 5
    BY WrittenWhole
  <2>2. saver.written \in 0 .. 4 /\ saver.stage = "write"
    BY <1>1 DEF IInv, MoreToWrite
  <2>3. written \in 1 .. 5 /\ stage = IF written = 5 THEN "replace" ELSE "write"
    BY <2>1, <2>2
  <2> HIDE DEF stage, written
  <2> QED
    BY <2>3 DEF Stages
<1> HIDE DEF members, written, stage, partial
<1>4. /\ DOMAIN saver' = {"stage", "path", "written"} /\ saver'.stage = stage
      /\ saver'.path = saver.path /\ saver'.written = written
  BY <1>1 DEF IInv, Typed
<1>5. Typed'
  BY <1>1, <1>3, <1>4 DEF IInv, Typed
<1>6. OnlyOwnTemp'
  BY <1>1, <1>3, <1>4, FileNamesDiffer DEF IInv, Typed, OnlyOwnTemp
<1>7. TempComplete'
  BY <1>1, <1>2, <1>4, FileNamesDiffer DEF IInv, Typed, TempComplete
<1>8. MoreToWrite'
  BY <1>3, <1>4 DEF MoreToWrite
<1> QED
  BY <1>5, <1>6, <1>7, <1>8 DEF IInv

\* A save ends: its temporary file is removed, or has taken the place of the target.
LEMMA EndStep ==
  ASSUME IInv, WriteFails \/ ReplaceTarget
  PROVE  IInv'
<1>1. /\ saver.stage # "idle"
      /\ saver' = [stage |-> "idle", path |-> Startup, written |-> 0]
      /\ crashed' = crashed
  BY DEF WriteFails, ReplaceTarget, Idle
<1>2. /\ DOMAIN files' = FileNames
      /\ files'[TempName(saver.path)] = Missing
      /\ \A path \in Paths :
           path # saver.path => files'[TempName(path)] = files[TempName(path)]
  BY FileNamesDiffer DEF WriteFails, ReplaceTarget, IInv, Typed
<1>3. Typed'
  BY <1>1, <1>2, PathAssumption DEF IInv, Typed, Stages
<1>4. OnlyOwnTemp'
  BY <1>1, <1>2 DEF IInv, OnlyOwnTemp
<1>5. TempComplete' /\ MoreToWrite'
  BY <1>1 DEF TempComplete, MoreToWrite
<1> QED
  BY <1>3, <1>4, <1>5 DEF IInv

\* A killed save may leave its temporary file, which crashed says.
LEMMA RestartStep ==
  ASSUME IInv, Restart
  PROVE  IInv'
<1>1. /\ saver' = [stage |-> "idle", path |-> Startup, written |-> 0]
      /\ crashed' = (crashed \/ saver.stage # "idle") /\ files' = files
  BY DEF Restart, Idle
<1>2. crashed' \in BOOLEAN
  BY <1>1
<1>3. Typed'
  BY <1>1, <1>2, PathAssumption DEF IInv, Typed, Stages
<1>4. OnlyOwnTemp' /\ TempComplete' /\ MoreToWrite'
  BY <1>1 DEF IInv, OnlyOwnTemp, TempComplete, MoreToWrite
<1> QED
  BY <1>3, <1>4 DEF IInv

\* What other programs put into a document's file leaves the temporary files alone.
LEMMA ForeignStep ==
  ASSUME IInv, NEW path \in Paths, NEW file, Foreign(path, file)
  PROVE  IInv'
<1>1. /\ files' = [files EXCEPT ![TargetName(path)] = file]
      /\ UNCHANGED <<document, saver, crashed>>
  BY DEF Foreign
<1>2. /\ DOMAIN files' = FileNames
      /\ \A other \in Paths : files'[TempName(other)] = files[TempName(other)]
  BY <1>1, FileNamesDiffer DEF IInv, Typed
<1> QED
  BY <1>1, <1>2 DEF IInv, Typed, OnlyOwnTemp, TempComplete, MoreToWrite

\* Edits and opening wait for the save to end.
LEMMA SessionStep ==
  ASSUME IInv, UNCHANGED <<files, saver, crashed>>,
         saver.stage = "idle" \/ document' = document
  PROVE  IInv'
BY DEF IInv, Typed, OnlyOwnTemp, TempComplete, MoreToWrite

\* The invariant is inductive.
LEMMA StepInv == IInv /\ [Next]_vars => IInv'
<1> SUFFICES ASSUME IInv, [Next]_vars PROVE IInv'
  OBVIOUS
<1>1. CASE Save
  BY <1>1, OpenTempStep, WriteStep, EndStep DEF Save
<1>2. CASE Restart
  BY <1>2, RestartStep
<1>3. CASE \E path \in Paths, file \in ForeignFiles : Foreign(path, file)
  BY <1>3, ForeignStep
<1>4. CASE Edit \/ \E path \in Paths : Open(path)
  BY <1>4, SessionStep
     DEF Edit, DrawObject, DeleteObject, CreateLayer, Edited, Open
<1>5. CASE UNCHANGED vars
  BY <1>5, SessionStep DEF vars
<1> QED
  BY <1>1, <1>2, <1>3, <1>4, <1>5 DEF Next

\* The invariant holds in every reachable state.
LEMMA Invariance == Spec => []IInv
BY InitInv, StepInv, PTL DEF Spec

\* document_save_json removes its temporary file on every way out but a kill.
THEOREM NothingStaysBehind == Spec => []NoLitter
<1>1. IInv => NoLitter
  BY DEF IInv, OnlyOwnTemp, NoLitter
<1> QED
  BY <1>1, Invariance, PTL

\* The target of document_save_json changes in the rename only, and then to the whole of
\* the document.
THEOREM TargetsAreReplacedWhole == Spec => ReplacedWhole
<1>1. IInv /\ [Next]_vars =>
        [\A path \in Paths :
           files'[TargetName(path)] # files[TargetName(path)] =>
             \/ files'[TargetName(path)] = [members |-> Written(document), whole |-> TRUE]
             \/ \E file \in ForeignFiles : Foreign(path, file)]_vars
  <2> SUFFICES ASSUME IInv, Next, NEW path \in Paths,
                      files'[TargetName(path)] # files[TargetName(path)]
               PROVE  \/ files'[TargetName(path)] = Complete(document)
                      \/ \E file \in ForeignFiles : Foreign(path, file)
    BY DEF Complete
  <2>1. CASE \E other \in Paths : OpenTemp(other)
    BY <2>1, FileNamesDiffer DEF OpenTemp, IInv, Typed
  <2>2. CASE WriteMember \/ WriteFails
    BY <2>2, FileNamesDiffer DEF WriteMember, WriteFails, IInv, Typed
  <2>3. CASE ReplaceTarget
    BY <2>3, FileNamesDiffer DEF ReplaceTarget, IInv, Typed, TempComplete
  <2>4. CASE \E other \in Paths, file \in ForeignFiles : Foreign(other, file)
    BY <2>4, FileNamesDiffer DEF Foreign, IInv, Typed
  <2>5. CASE Restart \/ Edit \/ \E other \in Paths : Open(other)
    BY <2>5 DEF Restart, Edit, DrawObject, DeleteObject, CreateLayer, Edited, Open
  <2> QED
    BY <2>1, <2>2, <2>3, <2>4, <2>5 DEF Next, Save
<1> QED
  BY <1>1, Invariance, PTL DEF Spec, ReplacedWhole
-----------------------------------------------------------------------------
(* Documents that are read *)

\* Ids are behind the counter that hands them out, until it has handed out the largest.
ObjectsAreBehind(doc) ==
  UIntMax \notin IdsOf(doc.objects) =>
    0 < doc.nextId /\ \A id \in IdsOf(doc.objects) : id < doc.nextId

LayersAreBehind(doc) ==
  UIntMax \notin IdsOf(doc.layers) => \A id \in IdsOf(doc.layers) : id < doc.nextLayer

\* What holds of the document of a reading at every point of it: ids are unique and behind
\* their counters as far as they can be, and no layer has a name the reader refuses.
Sound(doc) ==
  /\ doc \in DocumentType(Names)
  /\ Distinct(doc.objects)
  /\ Distinct(doc.layers)
  /\ NoId \notin IdsOf(doc.objects) /\ NoId \notin IdsOf(doc.layers)
  /\ ObjectsAreBehind(doc)
  /\ LayersAreBehind(doc)
  /\ \A layer \in ToSet(doc.layers) : layer.name # Unreadable

\* What holds of the open document as long as the largest id has not been in use.
Solid(doc) == Sound(doc) /\ Counted(doc) /\ 0 < doc.nextId

\* Every object is on a layer that exists.
OnLayers(doc) == \A object \in ToSet(doc.objects) : object.layer \in IdsOf(doc.layers)

Reads ==
  [doc : DocumentType(Names), accepted : BOOLEAN, version : Nat, nextId : Nat, active : Nat,
   layersSeen : BOOLEAN, objectsSeen : BOOLEAN]

\* What the loops over layers and objects leave alone.
SameHeader(q, r) ==
  /\ q.version = r.version /\ q.nextId = r.nextId /\ q.active = r.active
  /\ q.layersSeen = r.layersSeen /\ q.objectsSeen = r.objectsSeen

\* A reading goes on with another document, or is refused.
LEMMA ReadingGoesOn ==
  ASSUME NEW r \in Reads, NEW d \in DocumentType(Names)
  PROVE  /\ r.doc \in DocumentType(Names)
         /\ [r EXCEPT !.doc = d] \in Reads
         /\ [r EXCEPT !.doc = d].doc = d
         /\ [r EXCEPT !.doc = d].accepted = r.accepted
         /\ SameHeader([r EXCEPT !.doc = d], r)
         /\ Refused(r) \in Reads
         /\ Refused(r).doc = r.doc
         /\ SameHeader(Refused(r), r)
<1>1. r \in Reads
  OBVIOUS
<1> HIDE DEF Refused
<1>2. [r EXCEPT !.doc = d] \in Reads /\ [r EXCEPT !.accepted = FALSE] \in Reads
  BY <1>1 DEF Reads
<1>3. /\ r.doc \in DocumentType(Names)
      /\ [r EXCEPT !.doc = d].doc = d
      /\ [r EXCEPT !.doc = d].accepted = r.accepted
      /\ SameHeader([r EXCEPT !.doc = d], r)
      /\ [r EXCEPT !.accepted = FALSE].doc = r.doc
      /\ SameHeader([r EXCEPT !.accepted = FALSE], r)
  BY <1>1 DEF Reads, SameHeader
<1> QED
  BY <1>2, <1>3 DEF Refused

\* A layer is put behind those that were read, once.
LEMMA LayerAdded ==
  ASSUME NEW d, Sound(d), NEW layer \in LayerType(Names),
         layer.id \notin IdsOf(d.layers), layer.id # NoId, layer.name # Unreadable
  PROVE  /\ Sound(InsertLayer(d, layer, Len(d.layers) + 1))
         /\ Solid(d) /\ layer.id # UIntMax => Solid(InsertLayer(d, layer, Len(d.layers) + 1))
         /\ InsertLayer(d, layer, Len(d.layers) + 1).objects = d.objects
         /\ InsertLayer(d, layer, Len(d.layers) + 1).layers = Append(d.layers, layer)
         /\ InsertLayer(d, layer, Len(d.layers) + 1).active = d.active
<1> DEFINE n == Len(d.layers)
           e == InsertLayer(d, layer, n + 1)
           s == Append(d.layers, layer)
<1>1. /\ d \in DocumentType(Names) /\ d.layers \in Layers(Names) /\ d.nextLayer \in Nat
      /\ n \in Nat /\ d.nextId \in Nat
  BY DocumentIs, LenProperties DEF Sound, Layers
<1>2. layer.id \in Nat
  BY DEF LayerType
<1>3. e = Doc(d.objects, InsertAt(d.layers, n + 1, layer), d.active, d.nextId,
              Past(d.nextLayer, layer.id), TRUE)
  <2>1. n + 1 \in Nat \ {0} /\ n + 1 > n
    BY <1>1
  <2> QED
    BY <1>1, <2>1, InsertLayerIs
<1>4. InsertAt(d.layers, n + 1, layer) = s
  BY <1>1, AppendInserts DEF Layers
<1>5. e \in DocumentType(Names)
  <2>1. n + 1 \in Nat \ {0}
    BY <1>1
  <2> QED
    BY <1>1, <2>1, InsertLayerIs
<1>6. /\ Distinct(s) /\ ToSet(s) = ToSet(d.layers) \union {layer}
      /\ IdsOf(s) = IdsOf(d.layers) \union {layer.id}
  <2>1. Distinct(d.layers)
    BY DEF Sound
  <2> QED
    BY <1>1, <2>1, AppendDistinct DEF Layers
<1>7. /\ Past(d.nextLayer, layer.id) \in Nat
      /\ layer.id # UIntMax => /\ d.nextLayer <= Past(d.nextLayer, layer.id)
                               /\ layer.id < Past(d.nextLayer, layer.id)
  BY <1>1, <1>2, PastGrows DEF CanPass
<1> HIDE DEF e, s, n
<1>8. /\ e.objects = d.objects /\ e.layers = s /\ e.active = d.active /\ e.nextId = d.nextId
      /\ e.nextLayer = Past(d.nextLayer, layer.id)
  <2>1. e = Doc(d.objects, s, d.active, d.nextId, Past(d.nextLayer, layer.id), TRUE)
    BY <1>3, <1>4
  <2> QED
    BY <2>1 DEF Doc
<1>9. \A id \in IdsOf(d.layers) : id \in Nat
  BY <1>1, IdsAreNat
<1>10. ASSUME layer.id # UIntMax, \A id \in IdsOf(d.layers) : id < d.nextLayer
       PROVE  \A id \in IdsOf(e.layers) : id < e.nextLayer
  <2>1. ASSUME NEW id \in IdsOf(d.layers) PROVE id < e.nextLayer
    <3>1. id \in Nat /\ id < d.nextLayer
      BY <1>9, <1>10
    <3>2. d.nextLayer <= e.nextLayer /\ e.nextLayer \in Nat
      BY <1>7, <1>8, <1>10
    <3> QED
      BY <1>1, <3>1, <3>2
  <2> QED
    BY <1>6, <1>7, <1>8, <1>10, <2>1
<1>11. ObjectsAreBehind(e) /\ LayersAreBehind(e)
  <2>1. ObjectsAreBehind(d) /\ LayersAreBehind(d)
    BY DEF Sound
  <2> QED
    BY <1>6, <1>8, <1>10, <2>1 DEF ObjectsAreBehind, LayersAreBehind
<1>12. Sound(e)
  BY <1>5, <1>6, <1>8, <1>11 DEF Sound
<1>13. Solid(d) /\ layer.id # UIntMax => Solid(e)
  BY <1>8, <1>10, <1>12 DEF Solid, Counted
<1> QED
  BY <1>8, <1>12, <1>13 DEF e, s, n

\* An object is put behind those that were read, once, on its layer or, if that does not
\* exist, on another.
LEMMA ObjectAdded ==
  ASSUME NEW d, Sound(d), NEW object \in ObjectType, NEW id \in Nat, NEW layer \in Nat,
         id # NoId, CanAppendObject(d, id, layer)
  PROVE  /\ Sound(AppendObject(d, object, id, layer))
         /\ Solid(d) /\ id # UIntMax => Solid(AppendObject(d, object, id, layer))
         /\ AppendObject(d, object, id, layer).layers = d.layers
         /\ AppendObject(d, object, id, layer).active = d.active
         /\ AppendObject(d, object, id, layer).objects
              = Append(d.objects, Placed(object, id, LayerFor(d.layers, d.active, layer)))
         /\ OnLayers(d) => OnLayers(AppendObject(d, object, id, layer))
<1> DEFINE l == LayerFor(d.layers, d.active, layer)
           o == Placed(object, id, l)
           s == Append(d.objects, o)
           e == AppendObject(d, object, id, layer)
<1>1. /\ d \in DocumentType(Names) /\ d.layers \in Layers(Names) /\ d.active \in Nat
      /\ d.objects \in Objects /\ d.nextId \in Nat /\ Distinct(d.objects)
  BY DocumentIs DEF Sound
<1>2. l \in IdsOf(d.layers) /\ id \notin IdsOf(d.objects)
  BY ResolvedLayerIs, QueriesAre DEF CanAppendObject
<1>3. l \in Nat
  BY <1>1, <1>2, LayerForIs
<1> HIDE DEF l
<1>4. o \in ObjectType /\ o.id = id /\ o.layer = l
  BY <1>3, PlacedIs
<1>5. e = Doc(s, d.layers, d.active, Past(d.nextId, id), d.nextLayer, TRUE)
  BY <1>1, AppendObjectIs DEF l
<1>6. e \in DocumentType(Names)
  BY <1>1, AppendObjectIs
<1> HIDE DEF o
<1>7. /\ Distinct(s) /\ ToSet(s) = ToSet(d.objects) \union {o}
      /\ IdsOf(s) = IdsOf(d.objects) \union {id}
  BY <1>1, <1>2, <1>4, AppendDistinct DEF Objects
<1>8. /\ Past(d.nextId, id) \in Nat
      /\ id # UIntMax => d.nextId <= Past(d.nextId, id) /\ id < Past(d.nextId, id)
  BY <1>1, PastGrows DEF CanPass
<1> HIDE DEF e, s
<1>9. /\ e.objects = s /\ e.layers = d.layers /\ e.active = d.active
      /\ e.nextId = Past(d.nextId, id) /\ e.nextLayer = d.nextLayer
  BY <1>5 DEF Doc
<1>10. \A other \in IdsOf(d.objects) : other \in Nat
  BY <1>1, IdsAreNat
<1>11. ASSUME id # UIntMax, \A other \in IdsOf(d.objects) : other < d.nextId
       PROVE  0 < e.nextId /\ \A other \in IdsOf(e.objects) : other < e.nextId
  <2>1. ASSUME NEW other \in IdsOf(d.objects) PROVE other < e.nextId
    <3>1. other \in Nat /\ other < d.nextId
      BY <1>10, <1>11
    <3>2. d.nextId <= e.nextId /\ e.nextId \in Nat
      BY <1>8, <1>9, <1>11
    <3> QED
      BY <1>1, <3>1, <3>2
  <2>2. id < e.nextId /\ 0 < e.nextId
    BY <1>8, <1>9, <1>11
  <2> QED
    BY <1>7, <1>9, <2>1, <2>2
<1>12. ObjectsAreBehind(e) /\ LayersAreBehind(e)
  <2>1. ObjectsAreBehind(d) /\ LayersAreBehind(d)
    BY DEF Sound
  <2> QED
    BY <1>7, <1>9, <1>11, <2>1 DEF ObjectsAreBehind, LayersAreBehind
<1>13. Sound(e)
  BY <1>6, <1>7, <1>9, <1>12 DEF Sound
<1>14. Solid(d) /\ id # UIntMax => Solid(e)
  BY <1>9, <1>11, <1>13 DEF Solid, Counted
<1>15. OnLayers(d) => OnLayers(e)
  BY <1>2, <1>4, <1>7, <1>9 DEF OnLayers
<1> QED
  BY <1>9, <1>13, <1>14, <1>15 DEF e, s, o, l

\* parse_layer_entry
LEMMA ReadLayerIs ==
  ASSUME NEW r \in Reads, Sound(r.doc), NEW layer \in LayerType(Names)
  PROVE  /\ ReadLayer(r, layer) \in Reads
         /\ Sound(ReadLayer(r, layer).doc)
         /\ ReadLayer(r, layer).doc.objects = r.doc.objects
         /\ SameHeader(ReadLayer(r, layer), r)
         /\ layer.id \notin IdsOf(r.doc.layers) /\ layer.id # NoId /\ layer.name # Unreadable =>
              /\ ReadLayer(r, layer).doc.layers = Append(r.doc.layers, layer)
              /\ ReadLayer(r, layer).accepted = r.accepted
<1> DEFINE d == r.doc
           e == InsertLayer(d, layer, Len(d.layers) + 1)
           fits == layer.id \notin IdsOf(d.layers) /\ layer.id # NoId /\ layer.name # Unreadable
<1>1. ReadLayer(r, layer) = IF fits THEN [r EXCEPT !.doc = e] ELSE Refused(r)
  BY QueriesAre DEF ReadLayer
<1>2. CASE fits
  <2>1. /\ Sound(e) /\ e.objects = d.objects /\ e.layers = Append(d.layers, layer)
    BY <1>2, LayerAdded
  <2>2. e \in DocumentType(Names)
    BY <2>1 DEF Sound
  <2> HIDE DEF e
  <2>3. ReadLayer(r, layer) = [r EXCEPT !.doc = e]
    BY <1>1, <1>2
  <2> QED
    BY <1>2, <2>1, <2>2, <2>3, ReadingGoesOn
<1>3. CASE ~fits
  <2>1. ReadLayer(r, layer) = Refused(r)
    BY <1>1, <1>3
  <2>2. d \in DocumentType(Names)
    BY DEF Sound
  <2> QED
    BY <1>3, <2>1, <2>2, ReadingGoesOn
<1> QED
  BY <1>2, <1>3

\* parse_object_entry
LEMMA ReadObjectIs ==
  ASSUME NEW r \in Reads, Sound(r.doc), NEW object \in ObjectType
  PROVE  /\ ReadObject(r, object) \in Reads
         /\ Sound(ReadObject(r, object).doc)
         /\ ReadObject(r, object).doc.layers = r.doc.layers
         /\ SameHeader(ReadObject(r, object), r)
         /\ OnLayers(r.doc) => OnLayers(ReadObject(r, object).doc)
         /\ /\ object.id \notin IdsOf(r.doc.objects)
            /\ object.id # NoId
            /\ object.layer \in IdsOf(r.doc.layers)
            /\ object.width > 0
            => /\ ReadObject(r, object).doc.objects = Append(r.doc.objects, object)
               /\ ReadObject(r, object).accepted = r.accepted
<1> DEFINE d == r.doc
           e == AppendObject(d, object, object.id, object.layer)
           fits == /\ object.id # NoId /\ object.width > 0
                   /\ CanAppendObject(d, object.id, object.layer)
<1>1. ReadObject(r, object) = IF fits THEN [r EXCEPT !.doc = e] ELSE Refused(r)
  BY DEF ReadObject
<1>2. object.id \in Nat /\ object.layer \in Nat
  BY DEF ObjectType
<1>3. d \in DocumentType(Names) /\ d.layers \in Layers(Names) /\ d.active \in Nat
  BY DocumentIs DEF Sound
<1>4. CASE fits
  <2>1. /\ Sound(e) /\ e.layers = d.layers
        /\ OnLayers(d) => OnLayers(e)
        /\ e.objects = Append(d.objects, Placed(object, object.id, LayerFor(d.layers, d.active, object.layer)))
    BY <1>2, <1>4, ObjectAdded
  <2>2. e \in DocumentType(Names)
    BY <2>1 DEF Sound
  <2> HIDE DEF e
  <2>3. ReadObject(r, object) = [r EXCEPT !.doc = e]
    BY <1>1, <1>4
  <2>4. object.layer \in IdsOf(d.layers) => e.objects = Append(d.objects, object)
    <3> SUFFICES ASSUME object.layer \in IdsOf(d.layers)
                 PROVE  e.objects = Append(d.objects, object)
      OBVIOUS
    <3>1. LayerFor(d.layers, d.active, object.layer) = object.layer
      BY <1>2, <1>3, LayerForIs
    <3>2. Placed(object, object.id, object.layer) = object
      BY <1>2, PlacedIs
    <3> QED
      BY <2>1, <3>1, <3>2
  <2> HIDE DEF d
  <2> QED
    BY <2>1, <2>2, <2>3, <2>4, ReadingGoesOn DEF d
<1>5. CASE ~fits
  <2>1. ReadObject(r, object) = Refused(r)
    BY <1>1, <1>5
  <2>2. ~ (/\ object.id \notin IdsOf(d.objects) /\ object.id # NoId
           /\ object.layer \in IdsOf(d.layers) /\ object.width > 0)
    <3>1. object.layer \in IdsOf(d.layers) => ResolvedLayer(d, object.layer) = object.layer
      BY <1>2, <1>3, ResolvedLayerIs, LayerForIs
    <3> QED
      BY <1>5, <3>1, QueriesAre DEF CanAppendObject
  <2> QED
    BY <1>3, <2>1, <2>2, ReadingGoesOn
<1> QED
  BY <1>4, <1>5

\* The readings that the loops go through.
SoundReads == {r \in Reads : Sound(r.doc)}

\* The readings of parse_layers_array, one for each number of layers.
LayerLoop(r, layers) ==
  LET read[i \in 0 .. Len(layers)] ==
        IF i = 0 THEN r ELSE ReadLayer(read[i - 1], layers[i])
  IN  read

\* The equations of LayerLoop.
LEMMA LayerLoopDef ==
  ASSUME NEW r \in SoundReads, NEW layers \in Layers(Names)
  PROVE  /\ LayersRead(r, layers) = LayerLoop(r, layers)[Len(layers)]
         /\ LayerLoop(r, layers) \in [0 .. Len(layers) -> SoundReads]
         /\ LayerLoop(r, layers)[0] = r
         /\ \A i \in 1 .. Len(layers) :
              LayerLoop(r, layers)[i] = ReadLayer(LayerLoop(r, layers)[i - 1], layers[i])
<1> DEFINE n == Len(layers)
           A == SoundReads
           Step(q, i) == ReadLayer(q, layers[i])
           step == [p \in A \X (1 .. n) |-> Step(p[1], p[2])]
<1>1. n \in Nat
  BY LenProperties DEF Layers
<1>2. ASSUME NEW q \in A, NEW i \in 1 .. n
      PROVE  Step(q, i) \in A
  <2>1. layers[i] \in LayerType(Names)
    BY ElementOfSeq DEF Layers
  <2> QED
    BY <2>1, ReadLayerIs DEF SoundReads
<1>3. r \in A
  OBVIOUS
<1> HIDE DEF A, Step
<1>4. IsStep(step, A, n)
  BY <1>2 DEF IsStep
<1>5. ASSUME NEW q \in A, NEW i \in 1 .. n
      PROVE  step[<<q, i>>] = Step(q, i)
  OBVIOUS
<1> HIDE DEF step, n
<1>6. PICK g : Iterates(g, A, r, n, step)
  BY <1>1, <1>3, <1>4, IteratesExist
<1> DEFINE Defines(read) ==
             read = [i \in 0 .. n |-> IF i = 0 THEN r ELSE Step(read[i - 1], i)]
           f == CHOOSE read : Defines(read)
<1>7. Defines(g)
  <2>1. ASSUME NEW i \in 0 .. n
        PROVE  g[i] = IF i = 0 THEN r ELSE Step(g[i - 1], i)
    <3>1. CASE i = 0
      BY <3>1, <1>6 DEF Iterates
    <3>2. CASE i # 0
      <4>1. i \in 1 .. n /\ i - 1 \in 0 .. n
        BY <3>2, <1>1
      <4>2. g[i - 1] \in A
        BY <4>1, <1>6 DEF Iterates
      <4>3. g[i] = Step(g[i - 1], i)
        BY <4>1, <4>2, <1>5, <1>6 DEF Iterates
      <4> QED
        BY <3>2, <4>3
    <3> QED
      BY <3>1, <3>2
  <2> QED
    BY <2>1, <1>6 DEF Iterates
<1> HIDE DEF Defines
<1>8. Defines(f)
  BY <1>7
<1>9. LayerLoop(r, layers) = f /\ LayersRead(r, layers) = f[n]
  BY Zenon DEF LayerLoop, LayersRead, Defines, Step, n
<1>10. f = [i \in 0 .. n |-> IF i = 0 THEN r ELSE Step(f[i - 1], i)]
  BY <1>8 DEF Defines
<1> HIDE DEF f
<1>11. f[0] = r
  BY <1>1, <1>10
<1>12. ASSUME NEW i \in 1 .. n
       PROVE  f[i] = Step(f[i - 1], i)
  <2>1. i \in 0 .. n /\ i # 0
    BY <1>1
  <2> QED
    BY <2>1, <1>10
<1> DEFINE Reached == {i \in 0 .. n : f[i] \in A}
<1>13. 0 \in Reached
  BY <1>1, <1>3, <1>11
<1>14. ASSUME NEW i \in 1 .. n, i - 1 \in Reached
       PROVE  i \in Reached
  BY <1>1, <1>2, <1>12, <1>14
<1> HIDE DEF Reached
<1>15. \A i \in 0 .. n : i \in Reached
  BY <1>1, <1>13, <1>14, IntervalInduction
<1>16. f \in [0 .. n -> A]
  BY <1>10, <1>15 DEF Reached
<1>17. \A i \in 1 .. n : f[i] = ReadLayer(f[i - 1], layers[i])
  BY <1>12 DEF Step, n
<1> QED
  BY <1>9, <1>11, <1>16, <1>17 DEF A, n

\* The readings of parse_objects_array, one for each number of objects.
ObjectLoop(r, objects) ==
  LET read[i \in 0 .. Len(objects)] ==
        IF i = 0 THEN r ELSE ReadObject(read[i - 1], objects[i])
  IN  read

\* The equations of ObjectLoop.
LEMMA ObjectLoopDef ==
  ASSUME NEW r \in SoundReads, NEW objects \in Objects
  PROVE  /\ ObjectsRead(r, objects) = ObjectLoop(r, objects)[Len(objects)]
         /\ ObjectLoop(r, objects) \in [0 .. Len(objects) -> SoundReads]
         /\ ObjectLoop(r, objects)[0] = r
         /\ \A i \in 1 .. Len(objects) :
              ObjectLoop(r, objects)[i] = ReadObject(ObjectLoop(r, objects)[i - 1], objects[i])
<1> DEFINE n == Len(objects)
           A == SoundReads
           Step(q, i) == ReadObject(q, objects[i])
           step == [p \in A \X (1 .. n) |-> Step(p[1], p[2])]
<1>1. n \in Nat
  BY LenProperties DEF Objects
<1>2. ASSUME NEW q \in A, NEW i \in 1 .. n
      PROVE  Step(q, i) \in A
  <2>1. objects[i] \in ObjectType
    BY ElementOfSeq DEF Objects
  <2> QED
    BY <2>1, ReadObjectIs DEF SoundReads
<1>3. r \in A
  OBVIOUS
<1> HIDE DEF A, Step
<1>4. IsStep(step, A, n)
  BY <1>2 DEF IsStep
<1>5. ASSUME NEW q \in A, NEW i \in 1 .. n
      PROVE  step[<<q, i>>] = Step(q, i)
  OBVIOUS
<1> HIDE DEF step, n
<1>6. PICK g : Iterates(g, A, r, n, step)
  BY <1>1, <1>3, <1>4, IteratesExist
<1> DEFINE Defines(read) ==
             read = [i \in 0 .. n |-> IF i = 0 THEN r ELSE Step(read[i - 1], i)]
           f == CHOOSE read : Defines(read)
<1>7. Defines(g)
  <2>1. ASSUME NEW i \in 0 .. n
        PROVE  g[i] = IF i = 0 THEN r ELSE Step(g[i - 1], i)
    <3>1. CASE i = 0
      BY <3>1, <1>6 DEF Iterates
    <3>2. CASE i # 0
      <4>1. i \in 1 .. n /\ i - 1 \in 0 .. n
        BY <3>2, <1>1
      <4>2. g[i - 1] \in A
        BY <4>1, <1>6 DEF Iterates
      <4>3. g[i] = Step(g[i - 1], i)
        BY <4>1, <4>2, <1>5, <1>6 DEF Iterates
      <4> QED
        BY <3>2, <4>3
    <3> QED
      BY <3>1, <3>2
  <2> QED
    BY <2>1, <1>6 DEF Iterates
<1> HIDE DEF Defines
<1>8. Defines(f)
  BY <1>7
<1>9. ObjectLoop(r, objects) = f /\ ObjectsRead(r, objects) = f[n]
  BY Zenon DEF ObjectLoop, ObjectsRead, Defines, Step, n
<1>10. f = [i \in 0 .. n |-> IF i = 0 THEN r ELSE Step(f[i - 1], i)]
  BY <1>8 DEF Defines
<1> HIDE DEF f
<1>11. f[0] = r
  BY <1>1, <1>10
<1>12. ASSUME NEW i \in 1 .. n
       PROVE  f[i] = Step(f[i - 1], i)
  <2>1. i \in 0 .. n /\ i # 0
    BY <1>1
  <2> QED
    BY <2>1, <1>10
<1> DEFINE Reached == {i \in 0 .. n : f[i] \in A}
<1>13. 0 \in Reached
  BY <1>1, <1>3, <1>11
<1>14. ASSUME NEW i \in 1 .. n, i - 1 \in Reached
       PROVE  i \in Reached
  BY <1>1, <1>2, <1>12, <1>14
<1> HIDE DEF Reached
<1>15. \A i \in 0 .. n : i \in Reached
  BY <1>1, <1>13, <1>14, IntervalInduction
<1>16. f \in [0 .. n -> A]
  BY <1>10, <1>15 DEF Reached
<1>17. \A i \in 1 .. n : f[i] = ReadObject(f[i - 1], objects[i])
  BY <1>12 DEF Step, n
<1> QED
  BY <1>9, <1>11, <1>16, <1>17 DEF A, n

\* One more element, and no other with its id.
LEMMA PrefixGrows ==
  ASSUME NEW S, NEW s \in Seq(S), NEW i \in 1 .. Len(s)
  PROVE  Append(SubSeq(s, 1, i - 1), s[i]) = SubSeq(s, 1, i)
<1>1. Len(s) \in Nat /\ i \in Nat /\ i - 1 \in Nat
  BY LenProperties
<1>2. /\ SubSeq(s, 1, i - 1) \in Seq(S) /\ Len(SubSeq(s, 1, i - 1)) = i - 1
      /\ \A j \in 1 .. (i - 1) : SubSeq(s, 1, i - 1)[j] = s[j]
  BY <1>1, SubSeqProperties
<1>3. /\ SubSeq(s, 1, i) \in Seq(S) /\ Len(SubSeq(s, 1, i)) = i
      /\ \A j \in 1 .. i : SubSeq(s, 1, i)[j] = s[j]
  BY <1>1, SubSeqProperties
<1>4. s[i] \in S
  BY ElementOfSeq
<1> DEFINE t == Append(SubSeq(s, 1, i - 1), s[i])
<1>5. /\ t \in Seq(S) /\ Len(t) = i /\ t[i] = s[i]
      /\ \A j \in 1 .. (i - 1) : t[j] = s[j]
  BY <1>1, <1>2, <1>4, AppendProperties
<1> HIDE DEF t
<1>6. \A j \in 1 .. i : t[j] = SubSeq(s, 1, i)[j]
  BY <1>1, <1>3, <1>5
<1>7. t = SubSeq(s, 1, i)
  BY <1>3, <1>5, <1>6, SeqEqual
<1> QED
  BY <1>7 DEF t

\* The id of an element is not that of one before it.
LEMMA PrefixLacks ==
  ASSUME NEW S, NEW s \in Seq(S), Distinct(s), NEW i \in 1 .. Len(s)
  PROVE  s[i].id \notin IdsOf(SubSeq(s, 1, i - 1))
<1>1. Len(s) \in Nat /\ i \in Nat /\ i - 1 \in Nat
  BY LenProperties
<1> DEFINE t == SubSeq(s, 1, i - 1)
<1>2. /\ t \in Seq(S) /\ Len(t) = i - 1
      /\ \A j \in 1 .. (i - 1) : t[j] = s[j]
  BY <1>1, SubSeqProperties
<1> HIDE DEF t
<1> SUFFICES ASSUME s[i].id \in IdsOf(t) PROVE FALSE
  BY DEF t
<1>3. PICK j \in 1 .. Len(t) : t[j].id = s[i].id
  BY <1>2, IdsOfIs
<1>4. j \in 1 .. Len(s) /\ s[j].id = s[i].id /\ j # i
  BY <1>1, <1>2, <1>3
<1>5. DOMAIN s = 1 .. Len(s)
  BY LenProperties
<1> QED
  BY <1>4, <1>5 DEF Distinct

\* What the loop over layers keeps, and that it reads layers that can be read in full.
LEMMA LayersReadIs ==
  ASSUME NEW r \in SoundReads, NEW layers \in Layers(Names)
  PROVE  /\ LayersRead(r, layers) \in SoundReads
         /\ SameHeader(LayersRead(r, layers), r)
         /\ LayersRead(r, layers).doc.objects = r.doc.objects
         /\ /\ r.doc.layers = << >> /\ Distinct(layers) /\ NoId \notin IdsOf(layers)
            /\ \A layer \in ToSet(layers) : layer.name # Unreadable
            => /\ LayersRead(r, layers).doc.layers = layers
               /\ LayersRead(r, layers).accepted = r.accepted
<1> DEFINE n == Len(layers)
           q == LayerLoop(r, layers)
           full == /\ r.doc.layers = << >> /\ Distinct(layers) /\ NoId \notin IdsOf(layers)
                   /\ \A layer \in ToSet(layers) : layer.name # Unreadable
           T == {i \in 0 .. n :
                   /\ SameHeader(q[i], r)
                   /\ q[i].doc.objects = r.doc.objects
                   /\ full => /\ q[i].doc.layers = SubSeq(layers, 1, i)
                              /\ q[i].accepted = r.accepted}
<1>1. n \in Nat /\ layers \in Seq(LayerType(Names))
  BY LenProperties DEF Layers
<1>2. /\ LayersRead(r, layers) = q[n] /\ q \in [0 .. n -> SoundReads] /\ q[0] = r
      /\ \A i \in 1 .. n : q[i] = ReadLayer(q[i - 1], layers[i])
  BY LayerLoopDef
<1> HIDE DEF q, n
<1>3. 0 \in T
  <2>1. SubSeq(layers, 1, 0) = << >>
    BY <1>1, SubSeqEmpty
  <2>2. q[0] = r /\ 0 \in 0 .. n
    BY <1>1, <1>2
  <2>3. SameHeader(r, r)
    BY DEF SameHeader
  <2>4. full => r.doc.layers = SubSeq(layers, 1, 0)
    BY <2>1
  <2> HIDE DEF full
  <2> QED
    BY <2>2, <2>3, <2>4
<1>4. ASSUME NEW i \in 1 .. n, i - 1 \in T
      PROVE  i \in T
  <2> DEFINE p == q[i - 1]
             layer == layers[i]
  <2>1. /\ i \in 0 .. n /\ i - 1 \in 0 .. n /\ i \in 1 .. Len(layers)
    BY <1>1 DEF n
  <2>2. p \in Reads /\ Sound(p.doc)
    BY <1>2, <2>1 DEF SoundReads
  <2>3. layer \in LayerType(Names)
    BY <1>1, <2>1, ElementOfSeq
  <2>4. /\ SameHeader(p, r) /\ p.doc.objects = r.doc.objects
        /\ full => p.doc.layers = SubSeq(layers, 1, i - 1) /\ p.accepted = r.accepted
    BY <1>4
  <2>9. q[i] = ReadLayer(p, layer)
    BY <1>1, <1>2, <2>1 DEF p, layer
  <2> HIDE DEF p, layer, full
  <2>5. /\ SameHeader(q[i], p) /\ q[i].doc.objects = p.doc.objects
        /\ layer.id \notin IdsOf(p.doc.layers) /\ layer.id # NoId /\ layer.name # Unreadable =>
              /\ q[i].doc.layers = Append(p.doc.layers, layer)
              /\ q[i].accepted = p.accepted
    BY <2>9, <2>2, <2>3, ReadLayerIs
  <2>6. SameHeader(q[i], r) /\ q[i].doc.objects = r.doc.objects
    BY <2>4, <2>5 DEF SameHeader
  <2>7. ASSUME full
        PROVE  q[i].doc.layers = SubSeq(layers, 1, i) /\ q[i].accepted = r.accepted
    <3>1. /\ p.doc.layers = SubSeq(layers, 1, i - 1) /\ p.accepted = r.accepted
      BY <2>4, <2>7
    <3>2. layer.id # NoId /\ layer.name # Unreadable
      BY <1>1, <2>1, <2>7, IdsOfIs DEF full, layer, ToSet
    <3>3. layer.id \notin IdsOf(SubSeq(layers, 1, i - 1))
      BY <1>1, <2>1, <2>7, PrefixLacks DEF full, layer
    <3>4. Append(SubSeq(layers, 1, i - 1), layer) = SubSeq(layers, 1, i)
      BY <1>1, <2>1, PrefixGrows DEF layer
    <3> QED
      BY <2>5, <3>1, <3>2, <3>3, <3>4
  <2> QED
    BY <2>1, <2>6, <2>7
<1>5. n \in T
  <2> HIDE DEF T
  <2>1. \A i \in 0 .. n : i \in T
    BY <1>1, <1>3, <1>4, IntervalInduction
  <2>2. n \in 0 .. n
    BY <1>1
  <2> QED
    BY <2>1, <2>2
<1>6. full => SubSeq(layers, 1, n) = layers
  BY <1>1, SubSeqFull DEF n
<1>7. q[n] \in SoundReads
  BY <1>1, <1>2
<1> QED
  BY <1>2, <1>5, <1>6, <1>7

\* What the loop over objects keeps, and that it reads objects that can be read in full.
LEMMA ObjectsReadIs ==
  ASSUME NEW r \in SoundReads, NEW objects \in Objects
  PROVE  /\ ObjectsRead(r, objects) \in SoundReads
         /\ SameHeader(ObjectsRead(r, objects), r)
         /\ ObjectsRead(r, objects).doc.layers = r.doc.layers
         /\ OnLayers(r.doc) => OnLayers(ObjectsRead(r, objects).doc)
         /\ /\ r.doc.objects = << >> /\ Distinct(objects) /\ NoId \notin IdsOf(objects)
            /\ \A object \in ToSet(objects) :
                 object.layer \in IdsOf(r.doc.layers) /\ object.width > 0
            => /\ ObjectsRead(r, objects).doc.objects = objects
               /\ ObjectsRead(r, objects).accepted = r.accepted
<1> DEFINE n == Len(objects)
           q == ObjectLoop(r, objects)
           full == /\ r.doc.objects = << >> /\ Distinct(objects) /\ NoId \notin IdsOf(objects)
                   /\ \A object \in ToSet(objects) :
                        object.layer \in IdsOf(r.doc.layers) /\ object.width > 0
           T == {i \in 0 .. n :
                   /\ SameHeader(q[i], r)
                   /\ q[i].doc.layers = r.doc.layers
                   /\ OnLayers(r.doc) => OnLayers(q[i].doc)
                   /\ full => /\ q[i].doc.objects = SubSeq(objects, 1, i)
                              /\ q[i].accepted = r.accepted}
<1>1. n \in Nat /\ objects \in Seq(ObjectType)
  BY LenProperties DEF Objects
<1>2. /\ ObjectsRead(r, objects) = q[n] /\ q \in [0 .. n -> SoundReads] /\ q[0] = r
      /\ \A i \in 1 .. n : q[i] = ReadObject(q[i - 1], objects[i])
  BY ObjectLoopDef
<1> HIDE DEF q, n
<1>3. 0 \in T
  <2>1. SubSeq(objects, 1, 0) = << >>
    BY <1>1, SubSeqEmpty
  <2>2. q[0] = r /\ 0 \in 0 .. n
    BY <1>1, <1>2
  <2>3. SameHeader(r, r)
    BY DEF SameHeader
  <2>4. full => r.doc.objects = SubSeq(objects, 1, 0)
    BY <2>1
  <2> HIDE DEF full
  <2> QED
    BY <2>2, <2>3, <2>4
<1>4. ASSUME NEW i \in 1 .. n, i - 1 \in T
      PROVE  i \in T
  <2> DEFINE p == q[i - 1]
             object == objects[i]
  <2>1. /\ i \in 0 .. n /\ i - 1 \in 0 .. n /\ i \in 1 .. Len(objects)
    BY <1>1 DEF n
  <2>2. p \in Reads /\ Sound(p.doc)
    BY <1>2, <2>1 DEF SoundReads
  <2>3. object \in ObjectType
    BY <1>1, <2>1, ElementOfSeq
  <2>4. /\ SameHeader(p, r) /\ p.doc.layers = r.doc.layers
        /\ OnLayers(r.doc) => OnLayers(p.doc)
        /\ full => p.doc.objects = SubSeq(objects, 1, i - 1) /\ p.accepted = r.accepted
    BY <1>4
  <2>9. q[i] = ReadObject(p, object)
    BY <1>1, <1>2, <2>1 DEF p, object
  <2> HIDE DEF p, object, full
  <2>5. /\ SameHeader(q[i], p) /\ q[i].doc.layers = p.doc.layers
        /\ OnLayers(p.doc) => OnLayers(q[i].doc)
        /\ /\ object.id \notin IdsOf(p.doc.objects) /\ object.id # NoId
           /\ object.layer \in IdsOf(p.doc.layers) /\ object.width > 0
           => /\ q[i].doc.objects = Append(p.doc.objects, object)
              /\ q[i].accepted = p.accepted
    BY <2>9, <2>2, <2>3, ReadObjectIs
  <2>6. /\ SameHeader(q[i], r) /\ q[i].doc.layers = r.doc.layers
        /\ OnLayers(r.doc) => OnLayers(q[i].doc)
    BY <2>4, <2>5 DEF SameHeader
  <2>7. ASSUME full
        PROVE  q[i].doc.objects = SubSeq(objects, 1, i) /\ q[i].accepted = r.accepted
    <3>1. /\ p.doc.objects = SubSeq(objects, 1, i - 1) /\ p.accepted = r.accepted
      BY <2>4, <2>7
    <3>2. object.id # NoId /\ object.layer \in IdsOf(p.doc.layers) /\ object.width > 0
      BY <1>1, <2>1, <2>4, <2>7, IdsOfIs DEF full, object, ToSet
    <3>3. object.id \notin IdsOf(SubSeq(objects, 1, i - 1))
      BY <1>1, <2>1, <2>7, PrefixLacks DEF full, object
    <3>4. Append(SubSeq(objects, 1, i - 1), object) = SubSeq(objects, 1, i)
      BY <1>1, <2>1, PrefixGrows DEF object
    <3> QED
      BY <2>5, <3>1, <3>2, <3>3, <3>4
  <2> QED
    BY <2>1, <2>6, <2>7
<1>5. n \in T
  <2> HIDE DEF T
  <2>1. \A i \in 0 .. n : i \in T
    BY <1>1, <1>3, <1>4, IntervalInduction
  <2>2. n \in 0 .. n
    BY <1>1
  <2> QED
    BY <2>1, <2>2
<1>6. full => SubSeq(objects, 1, n) = objects
  BY <1>1, SubSeqFull DEF n
<1>7. q[n] \in SoundReads
  BY <1>1, <1>2
<1> QED
  BY <1>2, <1>5, <1>6, <1>7
-----------------------------------------------------------------------------
(* The members of a file *)

\* A number that was read.
VersionRead(r, number) == [r EXCEPT !.version = number]

NextIdRead(r, number) == [r EXCEPT !.nextId = number]

ActiveRead(r, number) == [r EXCEPT !.active = number]

\* The reading before the loop over the layers, and before that over the objects.
LayersBegun(r) == [r EXCEPT !.doc.layers = << >>, !.layersSeen = TRUE]

ObjectsBegun(r) == [r EXCEPT !.objectsSeen = TRUE]

\* A member has one name.
LEMMA MemberIs ==
  ASSUME NEW m \in MemberType
  PROVE  \/ DOMAIN m = {"version"} /\ m.version \in Nat
         \/ DOMAIN m = {"nextId"} /\ m.nextId \in Nat
         \/ DOMAIN m = {"active"} /\ m.active \in Nat
         \/ DOMAIN m = {"layers"} /\ m.layers \in Layers(Names)
         \/ DOMAIN m = {"objects"} /\ m.objects \in Objects
BY DEF MemberType, Layers, Objects

\* What a member is read as.
LEMMA ReadMemberBy ==
  ASSUME NEW r, NEW m
  PROVE  /\ DOMAIN m = {"version"} => ReadMember(r, m) = VersionRead(r, m.version)
         /\ DOMAIN m = {"nextId"} => ReadMember(r, m) = NextIdRead(r, m.nextId)
         /\ DOMAIN m = {"active"} => ReadMember(r, m) = ActiveRead(r, m.active)
         /\ DOMAIN m = {"layers"} => ReadMember(r, m) = LayersRead(LayersBegun(r), m.layers)
         /\ DOMAIN m = {"objects"} => ReadMember(r, m) = ObjectsRead(ObjectsBegun(r), m.objects)
BY DEF ReadMember, VersionRead, NextIdRead, ActiveRead, LayersBegun, ObjectsBegun

\* A version leaves the rest of the reading alone.
LEMMA VersionReadIs ==
  ASSUME NEW r \in SoundReads, NEW number \in Nat
  PROVE  /\ VersionRead(r, number) \in SoundReads
         /\ VersionRead(r, number).doc = r.doc
         /\ VersionRead(r, number).accepted = r.accepted
         /\ VersionRead(r, number).version = number
         /\ VersionRead(r, number).nextId = r.nextId
         /\ VersionRead(r, number).active = r.active
         /\ VersionRead(r, number).layersSeen = r.layersSeen
         /\ VersionRead(r, number).objectsSeen = r.objectsSeen
<1>1. r \in Reads /\ Sound(r.doc)
  BY DEF SoundReads
<1>2. /\ VersionRead(r, number) \in Reads
      /\ VersionRead(r, number).doc = r.doc
      /\ VersionRead(r, number).accepted = r.accepted
      /\ VersionRead(r, number).version = number
      /\ VersionRead(r, number).nextId = r.nextId
      /\ VersionRead(r, number).active = r.active
      /\ VersionRead(r, number).layersSeen = r.layersSeen
      /\ VersionRead(r, number).objectsSeen = r.objectsSeen
  BY <1>1 DEF Reads, VersionRead
<1> QED
  BY <1>1, <1>2 DEF SoundReads

\* So does a counter.
LEMMA NextIdReadIs ==
  ASSUME NEW r \in SoundReads, NEW number \in Nat
  PROVE  /\ NextIdRead(r, number) \in SoundReads
         /\ NextIdRead(r, number).doc = r.doc
         /\ NextIdRead(r, number).accepted = r.accepted
         /\ NextIdRead(r, number).version = r.version
         /\ NextIdRead(r, number).nextId = number
         /\ NextIdRead(r, number).active = r.active
         /\ NextIdRead(r, number).layersSeen = r.layersSeen
         /\ NextIdRead(r, number).objectsSeen = r.objectsSeen
<1>1. r \in Reads /\ Sound(r.doc)
  BY DEF SoundReads
<1>2. /\ NextIdRead(r, number) \in Reads
      /\ NextIdRead(r, number).doc = r.doc
      /\ NextIdRead(r, number).accepted = r.accepted
      /\ NextIdRead(r, number).version = r.version
      /\ NextIdRead(r, number).nextId = number
      /\ NextIdRead(r, number).active = r.active
      /\ NextIdRead(r, number).layersSeen = r.layersSeen
      /\ NextIdRead(r, number).objectsSeen = r.objectsSeen
  BY <1>1 DEF Reads, NextIdRead
<1> QED
  BY <1>1, <1>2 DEF SoundReads

\* So does an active layer.
LEMMA ActiveReadIs ==
  ASSUME NEW r \in SoundReads, NEW number \in Nat
  PROVE  /\ ActiveRead(r, number) \in SoundReads
         /\ ActiveRead(r, number).doc = r.doc
         /\ ActiveRead(r, number).accepted = r.accepted
         /\ ActiveRead(r, number).version = r.version
         /\ ActiveRead(r, number).nextId = r.nextId
         /\ ActiveRead(r, number).active = number
         /\ ActiveRead(r, number).layersSeen = r.layersSeen
         /\ ActiveRead(r, number).objectsSeen = r.objectsSeen
<1>1. r \in Reads /\ Sound(r.doc)
  BY DEF SoundReads
<1>2. /\ ActiveRead(r, number) \in Reads
      /\ ActiveRead(r, number).doc = r.doc
      /\ ActiveRead(r, number).accepted = r.accepted
      /\ ActiveRead(r, number).version = r.version
      /\ ActiveRead(r, number).nextId = r.nextId
      /\ ActiveRead(r, number).active = number
      /\ ActiveRead(r, number).layersSeen = r.layersSeen
      /\ ActiveRead(r, number).objectsSeen = r.objectsSeen
  BY <1>1 DEF Reads, ActiveRead
<1> QED
  BY <1>1, <1>2 DEF SoundReads

\* The loops begin with what was read, the one over layers without the layers.
LEMMA LoopsBegin ==
  ASSUME NEW r \in SoundReads
  PROVE  /\ LayersBegun(r) \in SoundReads
         /\ LayersBegun(r).doc.objects = r.doc.objects
         /\ LayersBegun(r).doc.layers = << >>
         /\ LayersBegun(r).layersSeen = TRUE
         /\ LayersBegun(r).accepted = r.accepted
         /\ LayersBegun(r).version = r.version
         /\ LayersBegun(r).nextId = r.nextId
         /\ LayersBegun(r).active = r.active
         /\ LayersBegun(r).objectsSeen = r.objectsSeen
         /\ ObjectsBegun(r) \in SoundReads
         /\ ObjectsBegun(r).doc = r.doc
         /\ ObjectsBegun(r).objectsSeen = TRUE
         /\ ObjectsBegun(r).accepted = r.accepted
         /\ ObjectsBegun(r).version = r.version
         /\ ObjectsBegun(r).nextId = r.nextId
         /\ ObjectsBegun(r).active = r.active
         /\ ObjectsBegun(r).layersSeen = r.layersSeen
<1> DEFINE d == r.doc
           e == [d EXCEPT !.layers = << >>]
           E == Doc(d.objects, << >>, d.active, d.nextId, d.nextLayer, d.revised)
<1>1. r \in Reads /\ Sound(d)
  BY DEF SoundReads
<1>2. d \in DocumentType(Names)
  BY <1>1 DEF Sound
<1>3. /\ d.objects \in Objects /\ d.active \in Nat /\ d.nextId \in Nat /\ d.nextLayer \in Nat
      /\ d.revised \in BOOLEAN
  BY <1>2, DocumentIs
<1>4. e = E
  BY <1>2 DEF DocumentType, Doc
<1>5. << >> \in Layers(Names) /\ ToSet(<< >>) = {} /\ IdsOf(<< >>) = {} /\ Distinct(<< >>)
  BY DEF Layers, ToSet, IdsOf, Distinct
<1>6. E \in DocumentType(Names)
  BY <1>3, <1>5, DocTyped
<1>7. /\ E.objects = d.objects /\ E.layers = << >> /\ E.nextId = d.nextId
      /\ E.nextLayer = d.nextLayer
  BY DEF Doc
<1> HIDE DEF E
<1>8. Sound(E)
  BY <1>1, <1>5, <1>6, <1>7 DEF Sound, ObjectsAreBehind, LayersAreBehind
<1>9. LayersBegun(r) = [r EXCEPT !.doc = E, !.layersSeen = TRUE]
  <2>1. LayersBegun(r) = [r EXCEPT !.doc = e, !.layersSeen = TRUE]
    BY <1>1 DEF LayersBegun, Reads
  <2> HIDE DEF e
  <2> QED
    BY <1>4, <2>1
<1>10. /\ LayersBegun(r) \in Reads /\ LayersBegun(r).doc = E /\ LayersBegun(r).layersSeen = TRUE
       /\ LayersBegun(r).accepted = r.accepted /\ LayersBegun(r).version = r.version
       /\ LayersBegun(r).nextId = r.nextId /\ LayersBegun(r).active = r.active
       /\ LayersBegun(r).objectsSeen = r.objectsSeen
  BY <1>1, <1>6, <1>9 DEF Reads
<1>11. /\ ObjectsBegun(r) \in Reads /\ ObjectsBegun(r).doc = d
       /\ ObjectsBegun(r).objectsSeen = TRUE
       /\ ObjectsBegun(r).accepted = r.accepted /\ ObjectsBegun(r).version = r.version
       /\ ObjectsBegun(r).nextId = r.nextId /\ ObjectsBegun(r).active = r.active
       /\ ObjectsBegun(r).layersSeen = r.layersSeen
  BY <1>1 DEF Reads, ObjectsBegun
<1> QED
  BY <1>1, <1>7, <1>8, <1>10, <1>11 DEF SoundReads

\* document_init
LEMMA NewDocumentIsSound ==
  /\ Sound(NewDocument) /\ Solid(NewDocument)
  /\ NewDocument.objects = << >>
  /\ NewDocument.layers = <<NewLayer(DefaultLayer, DefaultName)>>
  /\ NewDocument.active \in IdsOf(NewDocument.layers)
  /\ IdsOf(NewDocument.layers) = {DefaultLayer}
  /\ OnLayers(NewDocument)
<1> DEFINE layer == NewLayer(DefaultLayer, DefaultName)
           d == NewDocument
<1>1. layer \in LayerType(Names) /\ layer.id = 1 /\ layer.name = DefaultName
  BY NamesAssumption DEF NewLayer, LayerType, DefaultLayer
<1>2. d = Doc(<< >>, <<layer>>, 1, 1, 2, FALSE)
  BY DEF NewDocument, Doc, DefaultLayer
<1> HIDE DEF layer, d
<1>3. << >> \in Objects /\ ToSet(<< >>) = {} /\ IdsOf(<< >>) = {} /\ Distinct(<< >>)
  BY DEF Objects, ToSet, IdsOf, Distinct
<1>4. /\ <<layer>> \in Layers(Names) /\ ToSet(<<layer>>) = {layer} /\ Distinct(<<layer>>)
  BY <1>1 DEF Layers, ToSet, Distinct
<1>5. IdsOf(<<layer>>) = {1}
  BY <1>1, <1>4 DEF IdsOf
<1>6. d \in DocumentType(Names)
  BY <1>2, <1>3, <1>4, DocTyped
<1>7. /\ d.objects = << >> /\ d.layers = <<layer>> /\ d.active = 1 /\ d.nextId = 1
      /\ d.nextLayer = 2
  BY <1>2 DEF Doc
<1>8. Sound(d)
  BY <1>1, <1>3, <1>4, <1>5, <1>6, <1>7, NamesAssumption
     DEF Sound, ObjectsAreBehind, LayersAreBehind, NoId
<1>9. OnLayers(d)
  BY <1>3, <1>7 DEF OnLayers
<1>10. Solid(d)
  BY <1>3, <1>5, <1>7, <1>8 DEF Solid, Counted
<1> QED
  BY <1>5, <1>7, <1>8, <1>9, <1>10 DEF d, layer, DefaultLayer

\* The start of parse_document_root.
LEMMA ReadingIs ==
  /\ Reading \in SoundReads
  /\ Reading.doc = NewDocument
  /\ Reading.accepted = TRUE
  /\ Reading.layersSeen = FALSE
  /\ Reading.objectsSeen = FALSE
<1>1. NewDocument \in DocumentType(Names) /\ Sound(NewDocument)
  BY NewDocumentIsSound DEF Sound
<1>2. Reading \in Reads /\ Reading.doc = NewDocument /\ Reading.accepted = TRUE
      /\ Reading.layersSeen = FALSE /\ Reading.objectsSeen = FALSE
  BY <1>1 DEF Reading, Reads, NoId
<1> QED
  BY <1>1, <1>2 DEF SoundReads

\* A member of the loop of parse_document_root.
LEMMA ReadMemberIs ==
  ASSUME NEW r \in Reads, Sound(r.doc), NEW m \in MemberType
  PROVE  /\ ReadMember(r, m) \in Reads
         /\ Sound(ReadMember(r, m).doc)
         /\ ReadMember(r, m).layersSeen <=> r.layersSeen \/ "layers" \in DOMAIN m
         /\ ReadMember(r, m).objectsSeen <=> r.objectsSeen \/ "objects" \in DOMAIN m
         /\ "layers" \notin DOMAIN m => ReadMember(r, m).doc.layers = r.doc.layers
         /\ "objects" \notin DOMAIN m => ReadMember(r, m).doc.objects = r.doc.objects
         /\ "layers" \notin DOMAIN m /\ OnLayers(r.doc) => OnLayers(ReadMember(r, m).doc)
<1> DEFINE q == ReadMember(r, m)
<1>1. r \in SoundReads
  BY DEF SoundReads
<1>2. CASE \/ DOMAIN m = {"version"} /\ m.version \in Nat
           \/ DOMAIN m = {"nextId"} /\ m.nextId \in Nat
           \/ DOMAIN m = {"active"} /\ m.active \in Nat
  <2>1. /\ q \in SoundReads /\ q.doc = r.doc
        /\ q.layersSeen = r.layersSeen /\ q.objectsSeen = r.objectsSeen
    <3>1. CASE DOMAIN m = {"version"} /\ m.version \in Nat
      <4>1. q = VersionRead(r, m.version)
        BY <3>1, ReadMemberBy
      <4> HIDE DEF q
      <4> QED
        BY <1>1, <3>1, <4>1, VersionReadIs
    <3>2. CASE DOMAIN m = {"nextId"} /\ m.nextId \in Nat
      <4>1. q = NextIdRead(r, m.nextId)
        BY <3>2, ReadMemberBy
      <4> HIDE DEF q
      <4> QED
        BY <1>1, <3>2, <4>1, NextIdReadIs
    <3>3. CASE DOMAIN m = {"active"} /\ m.active \in Nat
      <4>1. q = ActiveRead(r, m.active)
        BY <3>3, ReadMemberBy
      <4> HIDE DEF q
      <4> QED
        BY <1>1, <3>3, <4>1, ActiveReadIs
    <3> QED
      BY <1>2, <3>1, <3>2, <3>3
  <2>2. "layers" \notin DOMAIN m /\ "objects" \notin DOMAIN m
    BY <1>2
  <2> HIDE DEF q
  <2>3. q \in Reads /\ Sound(q.doc)
    BY <2>1 DEF SoundReads
  <2> QED
    BY <2>1, <2>2, <2>3 DEF q
<1>3. CASE DOMAIN m = {"layers"} /\ m.layers \in Layers(Names)
  <2> DEFINE b == LayersBegun(r)
  <2>1. q = LayersRead(b, m.layers)
    BY <1>3, ReadMemberBy
  <2>2. /\ b \in SoundReads /\ b.doc.objects = r.doc.objects /\ b.layersSeen = TRUE
        /\ b.objectsSeen = r.objectsSeen
    BY <1>1, LoopsBegin
  <2> HIDE DEF b, q
  <2>3. /\ q \in SoundReads /\ SameHeader(q, b) /\ q.doc.objects = b.doc.objects
    BY <1>3, <2>1, <2>2, LayersReadIs
  <2>4. "layers" \in DOMAIN m /\ "objects" \notin DOMAIN m
    BY <1>3
  <2>5. /\ q.layersSeen = TRUE /\ q.objectsSeen = r.objectsSeen /\ q.doc.objects = r.doc.objects
    BY <2>2, <2>3 DEF SameHeader
  <2>6. q \in Reads /\ Sound(q.doc)
    BY <2>3 DEF SoundReads
  <2> QED
    BY <2>4, <2>5, <2>6 DEF q
<1>4. CASE DOMAIN m = {"objects"} /\ m.objects \in Objects
  <2> DEFINE b == ObjectsBegun(r)
  <2>1. q = ObjectsRead(b, m.objects)
    BY <1>4, ReadMemberBy
  <2>2. /\ b \in SoundReads /\ b.doc = r.doc /\ b.objectsSeen = TRUE
        /\ b.layersSeen = r.layersSeen
    BY <1>1, LoopsBegin
  <2> HIDE DEF b, q
  <2>3. /\ q \in SoundReads /\ SameHeader(q, b) /\ q.doc.layers = b.doc.layers
        /\ OnLayers(b.doc) => OnLayers(q.doc)
    BY <1>4, <2>1, <2>2, ObjectsReadIs
  <2>4. "layers" \notin DOMAIN m /\ "objects" \in DOMAIN m
    BY <1>4
  <2>5. /\ q.objectsSeen = TRUE /\ q.layersSeen = r.layersSeen /\ q.doc.layers = r.doc.layers
        /\ OnLayers(r.doc) => OnLayers(q.doc)
    BY <2>2, <2>3 DEF SameHeader
  <2>6. q \in Reads /\ Sound(q.doc)
    BY <2>3 DEF SoundReads
  <2> QED
    BY <2>4, <2>5, <2>6 DEF q
<1> QED
  BY <1>2, <1>3, <1>4, MemberIs

\* The readings of parse_document_root, one for each number of members.
MemberLoop(file) ==
  LET read[i \in 0 .. Len(file.members)] ==
        IF i = 0 THEN Reading ELSE ReadMember(read[i - 1], file.members[i])
  IN  read

\* The equations of MemberLoop.
LEMMA MemberLoopDef ==
  ASSUME NEW file \in FileType
  PROVE  /\ ReadMembers(file) = MemberLoop(file)[Len(file.members)]
         /\ MemberLoop(file) \in [0 .. Len(file.members) -> SoundReads]
         /\ MemberLoop(file)[0] = Reading
         /\ \A i \in 1 .. Len(file.members) :
              MemberLoop(file)[i] = ReadMember(MemberLoop(file)[i - 1], file.members[i])
<1> DEFINE n == Len(file.members)
           A == SoundReads
           Step(q, i) == ReadMember(q, file.members[i])
           step == [p \in A \X (1 .. n) |-> Step(p[1], p[2])]
<1>1. n \in Nat
  BY LenProperties DEF FileType
<1>2. ASSUME NEW q \in A, NEW i \in 1 .. n
      PROVE  Step(q, i) \in A
  <2>1. file.members[i] \in MemberType
    BY ElementOfSeq DEF FileType
  <2> QED
    BY <2>1, ReadMemberIs DEF SoundReads
<1>3. Reading \in A
  BY ReadingIs
<1> HIDE DEF A, Step
<1>4. IsStep(step, A, n)
  BY <1>2 DEF IsStep
<1>5. ASSUME NEW q \in A, NEW i \in 1 .. n
      PROVE  step[<<q, i>>] = Step(q, i)
  OBVIOUS
<1> HIDE DEF step, n
<1>6. PICK g : Iterates(g, A, Reading, n, step)
  BY <1>1, <1>3, <1>4, IteratesExist
<1> DEFINE Defines(read) ==
             read = [i \in 0 .. n |-> IF i = 0 THEN Reading ELSE Step(read[i - 1], i)]
           f == CHOOSE read : Defines(read)
<1>7. Defines(g)
  <2>1. ASSUME NEW i \in 0 .. n
        PROVE  g[i] = IF i = 0 THEN Reading ELSE Step(g[i - 1], i)
    <3>1. CASE i = 0
      BY <3>1, <1>6 DEF Iterates
    <3>2. CASE i # 0
      <4>1. i \in 1 .. n /\ i - 1 \in 0 .. n
        BY <3>2, <1>1
      <4>2. g[i - 1] \in A
        BY <4>1, <1>6 DEF Iterates
      <4>3. g[i] = Step(g[i - 1], i)
        BY <4>1, <4>2, <1>5, <1>6 DEF Iterates
      <4> QED
        BY <3>2, <4>3
    <3> QED
      BY <3>1, <3>2
  <2> QED
    BY <2>1, <1>6 DEF Iterates
<1> HIDE DEF Defines
<1>8. Defines(f)
  BY <1>7
<1>9. MemberLoop(file) = f /\ ReadMembers(file) = f[n]
  BY Zenon DEF MemberLoop, ReadMembers, Defines, Step, n
<1>10. f = [i \in 0 .. n |-> IF i = 0 THEN Reading ELSE Step(f[i - 1], i)]
  BY <1>8 DEF Defines
<1> HIDE DEF f
<1>11. f[0] = Reading
  BY <1>1, <1>10
<1>12. ASSUME NEW i \in 1 .. n
       PROVE  f[i] = Step(f[i - 1], i)
  <2>1. i \in 0 .. n /\ i # 0
    BY <1>1
  <2> QED
    BY <2>1, <1>10
<1> DEFINE Reached == {i \in 0 .. n : f[i] \in A}
<1>13. 0 \in Reached
  BY <1>1, <1>3, <1>11
<1>14. ASSUME NEW i \in 1 .. n, i - 1 \in Reached
       PROVE  i \in Reached
  BY <1>1, <1>2, <1>12, <1>14
<1> HIDE DEF Reached
<1>15. \A i \in 0 .. n : i \in Reached
  BY <1>1, <1>13, <1>14, IntervalInduction
<1>16. f \in [0 .. n -> A]
  BY <1>10, <1>15 DEF Reached
<1>17. \A i \in 1 .. n : f[i] = ReadMember(f[i - 1], file.members[i])
  BY <1>12 DEF Step, n
<1> QED
  BY <1>9, <1>11, <1>16, <1>17 DEF A, n

\* A file has a member with a name, among its first members.
Has(file, name, i) == \E j \in 1 .. i : name \in DOMAIN file.members[j]

\* It has objects before layers.
Disordered(file, i) ==
  \E a, b \in 1 .. i : /\ a < b
                       /\ "objects" \in DOMAIN file.members[a]
                       /\ "layers" \in DOMAIN file.members[b]

\* One more member.
LEMMA HasMore ==
  ASSUME NEW file, NEW i \in Nat, i > 0
  PROVE  /\ \A name : Has(file, name, i) <=>
              Has(file, name, i - 1) \/ name \in DOMAIN file.members[i]
         /\ Disordered(file, i) <=>
              \/ Disordered(file, i - 1)
              \/ Has(file, "objects", i - 1) /\ "layers" \in DOMAIN file.members[i]
<1>1. \A j : j \in 1 .. i <=> j \in 1 .. (i - 1) \/ j = i
  OBVIOUS
<1>2. \A j \in 1 .. (i - 1) : j < i /\ ~ (i < j)
  OBVIOUS
<1>3. ~ (i < i)
  OBVIOUS
<1>4. ASSUME NEW name
      PROVE  Has(file, name, i) <=> Has(file, name, i - 1) \/ name \in DOMAIN file.members[i]
  BY <1>1 DEF Has
<1>5. Disordered(file, i) <=>
        \/ Disordered(file, i - 1)
        \/ Has(file, "objects", i - 1) /\ "layers" \in DOMAIN file.members[i]
  <2>1. ASSUME Disordered(file, i)
        PROVE  \/ Disordered(file, i - 1)
               \/ Has(file, "objects", i - 1) /\ "layers" \in DOMAIN file.members[i]
    <3>1. PICK a, b \in 1 .. i : /\ a < b
                                 /\ "objects" \in DOMAIN file.members[a]
                                 /\ "layers" \in DOMAIN file.members[b]
      BY <2>1 DEF Disordered
    <3>2. a \in 1 .. (i - 1)
      BY <3>1
    <3>3. CASE b = i
      BY <3>1, <3>2, <3>3 DEF Has
    <3>4. CASE b \in 1 .. (i - 1)
      BY <3>1, <3>2, <3>4 DEF Disordered
    <3> QED
      BY <1>1, <3>3, <3>4
  <2>2. ASSUME Disordered(file, i - 1)
        PROVE  Disordered(file, i)
    BY <1>1, <2>2 DEF Disordered
  <2>3. ASSUME Has(file, "objects", i - 1), "layers" \in DOMAIN file.members[i]
        PROVE  Disordered(file, i)
    <3>1. PICK a \in 1 .. (i - 1) : "objects" \in DOMAIN file.members[a]
      BY <2>3 DEF Has
    <3>2. a \in 1 .. i /\ i \in 1 .. i /\ a < i
      BY <1>1, <1>2, <3>1
    <3> QED
      BY <2>3, <3>1, <3>2 DEF Disordered
  <2> QED
    BY <2>1, <2>2, <2>3
<1> QED
  BY <1>4, <1>5

\* parse_document_root: the layers are those of a new document until others are read, and
\* the objects are on layers that exist unless layers were read after them.
LEMMA MembersReadIs ==
  ASSUME NEW file \in FileType
  PROVE  /\ ReadMembers(file) \in SoundReads
         /\ ReadMembers(file).layersSeen <=> Has(file, "layers", Len(file.members))
         /\ ReadMembers(file).objectsSeen <=> Has(file, "objects", Len(file.members))
         /\ ~ ReadMembers(file).layersSeen => ReadMembers(file).doc.layers = NewDocument.layers
         /\ Disordered(file, Len(file.members)) \/ OnLayers(ReadMembers(file).doc)
<1> DEFINE n == Len(file.members)
           q == MemberLoop(file)
           T == {i \in 0 .. n :
                   /\ q[i].layersSeen <=> Has(file, "layers", i)
                   /\ q[i].objectsSeen <=> Has(file, "objects", i)
                   /\ ~ q[i].layersSeen => q[i].doc.layers = NewDocument.layers
                   /\ ~ q[i].objectsSeen => q[i].doc.objects = << >>
                   /\ Disordered(file, i) \/ OnLayers(q[i].doc)}
<1>1. n \in Nat /\ file.members \in Seq(MemberType)
  BY LenProperties DEF FileType
<1>2. /\ ReadMembers(file) = q[n] /\ q \in [0 .. n -> SoundReads] /\ q[0] = Reading
      /\ \A i \in 1 .. n : q[i] = ReadMember(q[i - 1], file.members[i])
  BY MemberLoopDef
<1> HIDE DEF q, n
<1>3. 0 \in T
  <2>1. 0 \in 0 .. n
    BY <1>1
  <2>2. ~ Has(file, "layers", 0) /\ ~ Has(file, "objects", 0)
    BY DEF Has
  <2>3. OnLayers(Reading.doc)
    BY ReadingIs, NewDocumentIsSound
  <2> QED
    BY <1>2, <2>1, <2>2, <2>3, ReadingIs, NewDocumentIsSound
<1>4. ASSUME NEW i \in 1 .. n, i - 1 \in T
      PROVE  i \in T
  <2> DEFINE p == q[i - 1]
             s == q[i]
             m == file.members[i]
  <2>1. /\ i \in 0 .. n /\ i - 1 \in 0 .. n /\ i \in 1 .. Len(file.members)
        /\ i \in Nat /\ i > 0
    BY <1>1 DEF n
  <2>2. p \in Reads /\ Sound(p.doc)
    BY <1>2, <2>1 DEF SoundReads
  <2>3. m \in MemberType
    BY <1>1, <2>1, ElementOfSeq
  <2>4. s = ReadMember(p, m)
    BY <1>2
  <2>5. /\ p.layersSeen <=> Has(file, "layers", i - 1)
        /\ p.objectsSeen <=> Has(file, "objects", i - 1)
        /\ ~ p.layersSeen => p.doc.layers = NewDocument.layers
        /\ ~ p.objectsSeen => p.doc.objects = << >>
        /\ Disordered(file, i - 1) \/ OnLayers(p.doc)
    BY <1>4
  <2>6. /\ Has(file, "layers", i) <=> Has(file, "layers", i - 1) \/ "layers" \in DOMAIN m
        /\ Has(file, "objects", i) <=> Has(file, "objects", i - 1) \/ "objects" \in DOMAIN m
        /\ Disordered(file, i) <=>
             \/ Disordered(file, i - 1)
             \/ Has(file, "objects", i - 1) /\ "layers" \in DOMAIN m
    BY <2>1, HasMore
  <2> HIDE DEF p, s, m
  <2>7. /\ s.layersSeen <=> p.layersSeen \/ "layers" \in DOMAIN m
        /\ s.objectsSeen <=> p.objectsSeen \/ "objects" \in DOMAIN m
        /\ "layers" \notin DOMAIN m => s.doc.layers = p.doc.layers
        /\ "objects" \notin DOMAIN m => s.doc.objects = p.doc.objects
        /\ "layers" \notin DOMAIN m /\ OnLayers(p.doc) => OnLayers(s.doc)
    BY <2>2, <2>3, <2>4, ReadMemberIs
  <2>8. s.doc.objects = << >> => OnLayers(s.doc)
    BY DEF OnLayers, ToSet
  <2>9. /\ s.layersSeen <=> Has(file, "layers", i)
        /\ s.objectsSeen <=> Has(file, "objects", i)
        /\ ~ s.layersSeen => s.doc.layers = NewDocument.layers
        /\ ~ s.objectsSeen => s.doc.objects = << >>
    BY <2>5, <2>6, <2>7
  <2>10. Disordered(file, i) \/ OnLayers(s.doc)
    <3>1. CASE "layers" \notin DOMAIN m
      BY <2>5, <2>6, <2>7, <3>1
    <3>2. CASE "layers" \in DOMAIN m /\ ~ Has(file, "objects", i - 1)
      <4>1. "objects" \notin DOMAIN m
        BY <2>3, <3>2, MemberIs
      <4> QED
        BY <2>5, <2>7, <2>8, <3>2, <4>1
    <3>3. CASE "layers" \in DOMAIN m /\ Has(file, "objects", i - 1)
      BY <2>6, <3>3
    <3> QED
      BY <3>1, <3>2, <3>3
  <2> QED
    BY <2>1, <2>9, <2>10 DEF s
<1>5. n \in T
  <2> HIDE DEF T
  <2>1. \A i \in 0 .. n : i \in T
    BY <1>1, <1>3, <1>4, IntervalInduction
  <2>2. n \in 0 .. n
    BY <1>1
  <2> QED
    BY <2>1, <2>2
<1>6. q[n] \in SoundReads
  BY <1>1, <1>2
<1> QED
  BY <1>2, <1>5, <1>6 DEF n
-----------------------------------------------------------------------------
(* The document that was read *)

\* The layer that is made if the file has none, or is of version 1.
TheDefault == <<NewLayer(DefaultLayer, DefaultName)>>

Relayered(r) == r.version = 1 \/ ~r.layersSeen \/ r.doc.layers = << >>

\* Afterwards there is a layer.
LEMMA LayeredIs ==
  ASSUME NEW r \in SoundReads
  PROVE  /\ Sound(Layered(r))
         /\ Layered(r).objects = r.doc.objects
         /\ Layered(r).layers = IF Relayered(r) THEN TheDefault ELSE r.doc.layers
         /\ Layered(r).layers # << >>
<1> DEFINE d == r.doc
           e == Layered(r)
           E == Doc(d.objects, TheDefault, d.active, d.nextId, 2, d.revised)
<1>1. Sound(d)
  BY DEF SoundReads
<1>2. d \in DocumentType(Names)
  BY <1>1 DEF Sound
<1>3. /\ d.objects \in Objects /\ d.active \in Nat /\ d.nextId \in Nat /\ d.nextLayer \in Nat
      /\ d.revised \in BOOLEAN
  BY <1>2, DocumentIs
<1>4. CASE Relayered(r)
  <2> DEFINE layer == NewLayer(DefaultLayer, DefaultName)
  <2>1. e = [d EXCEPT !.layers = TheDefault, !.nextLayer = 2]
    BY <1>4 DEF Layered, Relayered, DefaultLayer, TheDefault
  <2>2. layer \in LayerType(Names) /\ layer.id = 1 /\ layer.name = DefaultName
    BY NamesAssumption DEF NewLayer, LayerType, DefaultLayer
  <2>3. TheDefault = <<layer>>
    BY DEF TheDefault
  <2> HIDE DEF layer
  <2>4. /\ TheDefault \in Layers(Names) /\ ToSet(TheDefault) = {layer} /\ Distinct(TheDefault)
        /\ TheDefault # << >>
    BY <2>2, <2>3 DEF Layers, ToSet, Distinct
  <2>5. IdsOf(TheDefault) = {1}
    BY <2>2, <2>4 DEF IdsOf
  <2>6. e = E
    BY <1>2, <2>1 DEF DocumentType, Doc
  <2>7. E \in DocumentType(Names)
    BY <1>3, <2>4, DocTyped
  <2>8. /\ E.objects = d.objects /\ E.layers = TheDefault /\ E.nextId = d.nextId
        /\ E.nextLayer = 2
    BY DEF Doc
  <2> HIDE DEF E, e
  <2>9. Sound(E)
    BY <1>1, <2>2, <2>4, <2>5, <2>7, <2>8, NamesAssumption
       DEF Sound, ObjectsAreBehind, LayersAreBehind, NoId
  <2> QED
    BY <1>4, <2>4, <2>6, <2>8, <2>9 DEF e
<1>5. CASE ~Relayered(r)
  <2>1. e = d
    BY <1>5 DEF Layered, Relayered
  <2>2. d.layers # << >>
    BY <1>5 DEF Relayered
  <2> HIDE DEF e
  <2> QED
    BY <1>1, <1>5, <2>1, <2>2 DEF e
<1> QED
  BY <1>4, <1>5

\* The end of parse_document_root: the counter of the file is used if it is ahead, the active
\* layer of the file if it exists.
LEMMA FinishedIs ==
  ASSUME NEW r \in SoundReads
  PROVE  /\ Sound(Finished(r))
         /\ Finished(r).objects = r.doc.objects
         /\ Finished(r).layers = IF Relayered(r) THEN TheDefault ELSE r.doc.layers
         /\ Finished(r).active \in IdsOf(Finished(r).layers)
         /\ r.active \in IdsOf(Finished(r).layers) => Finished(r).active = r.active
         /\ /\ 0 < r.nextId
            /\ \A id \in IdsOf(r.doc.objects) : id < r.nextId
            => Finished(r).nextId = r.nextId
<1> DEFINE d == Layered(r)
           ids == IdsOf(d.objects) \union {NoId}
           last == Max(ids)
           active == IF r.active \in IdsOf(d.layers) THEN r.active ELSE d.layers[1].id
           nextId == IF r.nextId > last THEN r.nextId ELSE Following(last)
           E == Doc(d.objects, d.layers, active, nextId, d.nextLayer, FALSE)
<1>1. /\ Sound(d) /\ d.layers # << >> /\ d.objects = r.doc.objects
      /\ d.layers = IF Relayered(r) THEN TheDefault ELSE r.doc.layers
  BY LayeredIs
<1>2. d \in DocumentType(Names)
  BY <1>1 DEF Sound
<1>3. /\ d.objects \in Objects /\ d.layers \in Layers(Names) /\ d.nextLayer \in Nat
      /\ IdsOf(d.objects) \subseteq Nat /\ IdsOf(d.layers) \subseteq Nat
  BY <1>2, DocumentIs, IdsAreNat
<1>4. r.active \in Nat /\ r.nextId \in Nat
  BY DEF SoundReads, Reads
<1>5. ObjectIds(d) = IdsOf(d.objects) /\ LayerIds(d) = IdsOf(d.layers)
  BY QueriesAre
<1>6. Finished(r) = [d EXCEPT !.active = active, !.nextId = nextId, !.revised = FALSE]
  BY <1>5 DEF Finished
<1>7. last \in Nat /\ \A id \in IdsOf(d.objects) : id <= last
  BY <1>3, LargestOrNone DEF Objects
<1>8. last \in ids
  BY <1>3, LargestOrNone DEF Objects
<1>9. active \in IdsOf(d.layers)
  <2>1. Len(d.layers) \in Nat /\ 1 \in 1 .. Len(d.layers)
    BY <1>1, <1>3, LenProperties, EmptySeq DEF Layers
  <2>2. d.layers[1].id \in IdsOf(d.layers)
    BY <1>3, <2>1, IdsOfIs DEF Layers
  <2> QED
    BY <2>2
<1>10. /\ nextId \in Nat
       /\ UIntMax \notin IdsOf(d.objects) =>
            0 < nextId /\ \A id \in IdsOf(d.objects) : id < nextId
  <2> HIDE DEF last
  <2>1. nextId \in Nat /\ (last # UIntMax => last < nextId)
    BY <1>4, <1>7, IdAssumption DEF Following, UIntMax, NoId
  <2>2. UIntMax \notin IdsOf(d.objects) => last # UIntMax
    BY <1>8, IdAssumption DEF UIntMax, NoId
  <2> HIDE DEF nextId
  <2>3. ASSUME last # UIntMax, NEW id \in IdsOf(d.objects) PROVE id < nextId
    <3>1. id \in Nat /\ id <= last
      BY <1>3, <1>7
    <3> QED
      BY <1>7, <2>1, <2>3, <3>1
  <2>4. last # UIntMax => 0 < nextId
    BY <1>7, <2>1
  <2> QED
    BY <2>1, <2>2, <2>3, <2>4
<1>11. (0 < r.nextId /\ \A id \in IdsOf(d.objects) : id < r.nextId) => nextId = r.nextId
  <2> SUFFICES ASSUME 0 < r.nextId, \A id \in IdsOf(d.objects) : id < r.nextId
               PROVE  r.nextId > last
    OBVIOUS
  <2> HIDE DEF last
  <2>1. last < r.nextId
    BY <1>8 DEF NoId
  <2> QED
    BY <1>4, <1>7, <2>1
<1>12. r.active \in IdsOf(d.layers) => active = r.active
  OBVIOUS
<1> HIDE DEF active, nextId, last, ids, E
<1>13. Finished(r) = E
  BY <1>2, <1>6 DEF DocumentType, Doc, E
<1>14. E \in DocumentType(Names)
  <2>1. active \in Nat
    BY <1>3, <1>9
  <2> QED
    BY <1>3, <1>10, <2>1, DocTyped DEF E
<1>15. /\ E.objects = d.objects /\ E.layers = d.layers /\ E.active = active
       /\ E.nextId = nextId /\ E.nextLayer = d.nextLayer
  BY DEF Doc, E
<1> HIDE DEF d
<1>16. Sound(E)
  BY <1>1, <1>10, <1>14, <1>15 DEF Sound, ObjectsAreBehind, LayersAreBehind
<1> QED
  BY <1>1, <1>9, <1>11, <1>12, <1>13, <1>15, <1>16

\* document_load_json: the document that is read is sound, has its active layer and, unless
\* the file is misplaced, has every object on a layer that exists.
LEMMA ReadIs ==
  ASSUME NEW file \in FileType, CanRead(file)
  PROVE  /\ Sound(Read(file))
         /\ Read(file).active \in IdsOf(Read(file).layers)
         /\ Misplaced(file) \/ OnLayers(Read(file))
<1> DEFINE q == ReadMembers(file)
           d == Read(file)
           n == Len(file.members)
<1>1. /\ q \in SoundReads
      /\ q.layersSeen <=> Has(file, "layers", n)
      /\ q.objectsSeen <=> Has(file, "objects", n)
      /\ ~ q.layersSeen => q.doc.layers = NewDocument.layers
      /\ Disordered(file, n) \/ OnLayers(q.doc)
  BY MembersReadIs
<1>2. q.objectsSeen
  BY DEF CanRead
<1>3. d = Finished(q)
  BY DEF Read
<1>4. n \in Nat /\ DOMAIN file.members = 1 .. n
  BY LenProperties DEF FileType
<1>5. Misplaced(file) <=>
        \E i, j \in 1 .. n : /\ "objects" \in DOMAIN file.members[i]
                             /\ "layers" \in DOMAIN file.members[j]
                             /\ i < j \/ q.version = 1
  BY <1>4 DEF Misplaced
<1> HIDE DEF q, d, n
<1>6. /\ Sound(d) /\ d.objects = q.doc.objects /\ d.active \in IdsOf(d.layers)
      /\ d.layers = IF Relayered(q) THEN TheDefault ELSE q.doc.layers
  BY <1>1, <1>3, FinishedIs
<1>7. Disordered(file, n) => Misplaced(file)
  BY <1>5 DEF Disordered
<1>8. q.version = 1 /\ q.layersSeen => Misplaced(file)
  <2> SUFFICES ASSUME q.version = 1, q.layersSeen PROVE Misplaced(file)
    OBVIOUS
  <2>1. PICK i \in 1 .. n : "objects" \in DOMAIN file.members[i]
    BY <1>1, <1>2 DEF Has
  <2>2. PICK j \in 1 .. n : "layers" \in DOMAIN file.members[j]
    BY <1>1 DEF Has
  <2> QED
    BY <1>5, <2>1, <2>2
<1>9. ASSUME ~ Misplaced(file)
      PROVE  OnLayers(d)
  <2>1. OnLayers(q.doc)
    BY <1>1, <1>7, <1>9
  <2>2. CASE ~ Relayered(q)
    BY <1>6, <2>1, <2>2 DEF OnLayers
  <2>3. CASE ~ q.layersSeen
    <3>1. q.doc.layers = TheDefault /\ Relayered(q)
      BY <1>1, <2>3, NewDocumentIsSound DEF TheDefault, Relayered
    <3> QED
      BY <1>6, <2>1, <3>1 DEF OnLayers
  <2>4. CASE q.layersSeen /\ q.doc.layers = << >>
    <3>1. IdsOf(q.doc.layers) = {}
      BY <2>4 DEF IdsOf, ToSet
    <3>2. ToSet(d.objects) = {}
      BY <1>6, <2>1, <3>1 DEF OnLayers
    <3> QED
      BY <3>2 DEF OnLayers
  <2> QED
    BY <1>8, <1>9, <2>2, <2>3, <2>4 DEF Relayered
<1> QED
  BY <1>6, <1>9 DEF d
-----------------------------------------------------------------------------
(* Reading what was written *)

\* The layers and the objects as they are written.
LayerEntries(layers) == [i \in DOMAIN layers |-> LayerEntry(layers[i])]

ObjectEntries(objects) == [i \in DOMAIN objects |-> ObjectEntry(objects[i])]

\* Names that can be written come back.
LEMMA LayerEntriesAre ==
  ASSUME NEW layers \in Layers(Names)
  PROVE  /\ LayerEntries(layers) \in Layers(Names)
         /\ (\A layer \in ToSet(layers) : layer.name \notin ControlNames) =>
              LayerEntries(layers) = layers
<1> DEFINE n == Len(layers)
<1>1. n \in Nat /\ DOMAIN layers = 1 .. n /\ layers \in Seq(LayerType(Names))
  BY LenProperties DEF Layers
<1>2. ASSUME NEW i \in 1 .. n
      PROVE  /\ LayerEntries(layers)[i] \in LayerType(Names)
             /\ layers[i].name \notin ControlNames => LayerEntries(layers)[i] = layers[i]
  <2>1. layers[i] \in LayerType(Names)
    BY <1>1, ElementOfSeq
  <2>2. LayerEntries(layers)[i]
          = [layers[i] EXCEPT !.name = IF layers[i].name \in ControlNames THEN Unreadable
                                       ELSE layers[i].name]
    BY <1>1 DEF LayerEntries, LayerEntry
  <2>3. Unreadable \in Names
    BY NamesAssumption
  <2> QED
    BY <2>1, <2>2, <2>3 DEF LayerType
<1> HIDE DEF n
<1>3. LayerEntries(layers) \in Layers(Names)
  <2>1. LayerEntries(layers) = [i \in 1 .. n |-> LayerEntries(layers)[i]]
    BY <1>1 DEF LayerEntries
  <2> QED
    BY <1>1, <1>2, <2>1, IsASeq DEF Layers
<1>4. ASSUME \A layer \in ToSet(layers) : layer.name \notin ControlNames
      PROVE  LayerEntries(layers) = layers
  <2>1. \A i \in 1 .. n : layers[i] \in ToSet(layers)
    BY <1>1 DEF ToSet
  <2>2. \A i \in 1 .. n : LayerEntries(layers)[i] = layers[i]
    BY <1>2, <1>4, <2>1
  <2>3. Len(LayerEntries(layers)) = n
    BY <1>1, <1>3, LenProperties DEF LayerEntries, Layers
  <2> QED
    BY <1>1, <1>3, <2>2, <2>3, SeqEqual DEF n, Layers
<1> QED
  BY <1>3, <1>4

\* Objects whose numbers can be written come back.
LEMMA ObjectEntriesAre ==
  ASSUME NEW objects \in Objects
  PROVE  /\ ObjectEntries(objects) \in Objects
         /\ (\A object \in ToSet(objects) : ~ Infinite(object)) => ObjectEntries(objects) = objects
<1> DEFINE n == Len(objects)
<1>1. n \in Nat /\ DOMAIN objects = 1 .. n /\ objects \in Seq(ObjectType)
  BY LenProperties DEF Objects
<1>2. ASSUME NEW i \in 1 .. n
      PROVE  /\ ObjectEntries(objects)[i] \in ObjectType
             /\ ~ Infinite(objects[i]) => ObjectEntries(objects)[i] = objects[i]
  <2>1. objects[i] \in ObjectType
    BY <1>1, ElementOfSeq
  <2>2. ObjectEntries(objects)[i]
          = [objects[i] EXCEPT !.id = IF Infinite(objects[i]) THEN 0 ELSE objects[i].id]
    BY <1>1 DEF ObjectEntries, ObjectEntry, NoId
  <2> QED
    BY <2>1, <2>2 DEF ObjectType
<1> HIDE DEF n
<1>3. ObjectEntries(objects) \in Objects
  <2>1. ObjectEntries(objects) = [i \in 1 .. n |-> ObjectEntries(objects)[i]]
    BY <1>1 DEF ObjectEntries
  <2> QED
    BY <1>1, <1>2, <2>1, IsASeq DEF Objects
<1>4. ASSUME \A object \in ToSet(objects) : ~ Infinite(object)
      PROVE  ObjectEntries(objects) = objects
  <2>1. \A i \in 1 .. n : objects[i] \in ToSet(objects)
    BY <1>1 DEF ToSet
  <2>2. \A i \in 1 .. n : ObjectEntries(objects)[i] = objects[i]
    BY <1>2, <1>4, <2>1
  <2>3. Len(ObjectEntries(objects)) = n
    BY <1>1, <1>3, LenProperties DEF ObjectEntries, Objects
  <2> QED
    BY <1>1, <1>3, <2>2, <2>3, SeqEqual DEF n, Objects
<1> QED
  BY <1>3, <1>4

\* write_document_json: the members and their order.
LEMMA WrittenIs ==
  ASSUME NEW d \in DocumentType(Names)
  PROVE  /\ Written(d) \in Seq(MemberType)
         /\ Len(Written(d)) = 5
         /\ DOMAIN Written(d)[1] = {"version"} /\ Written(d)[1].version = 2
         /\ DOMAIN Written(d)[2] = {"nextId"} /\ Written(d)[2].nextId = d.nextId
         /\ DOMAIN Written(d)[3] = {"active"} /\ Written(d)[3].active = d.active
         /\ DOMAIN Written(d)[4] = {"layers"} /\ Written(d)[4].layers = LayerEntries(d.layers)
         /\ DOMAIN Written(d)[5] = {"objects"} /\ Written(d)[5].objects = ObjectEntries(d.objects)
<1> DEFINE version == [version |-> 2]
           nextId  == [nextId |-> d.nextId]
           active  == [active |-> d.active]
           layers  == [layers |-> LayerEntries(d.layers)]
           objects == [objects |-> ObjectEntries(d.objects)]
<1>1. Written(d) = <<version, nextId, active, layers, objects>>
  BY DEF Written, LayerEntries, ObjectEntries
<1>2. /\ d.nextId \in Nat /\ d.active \in Nat /\ ObjectEntries(d.objects) \in Objects
      /\ LayerEntries(d.layers) \in Layers(Names)
  BY DocumentIs, LayerEntriesAre, ObjectEntriesAre
<1>3. /\ version \in MemberType /\ nextId \in MemberType /\ active \in MemberType
      /\ layers \in MemberType /\ objects \in MemberType
  <2>1. version \in MemberType
    BY DEF MemberType
  <2>2. nextId \in MemberType
    BY <1>2 DEF MemberType
  <2>3. active \in MemberType
    BY <1>2 DEF MemberType
  <2>4. layers \in MemberType
    BY <1>2 DEF MemberType, Layers
  <2>5. objects \in MemberType
    BY <1>2 DEF MemberType, Objects
  <2> QED
    BY <2>1, <2>2, <2>3, <2>4, <2>5
<1>4. /\ DOMAIN version = {"version"} /\ version.version = 2
      /\ DOMAIN nextId = {"nextId"} /\ nextId.nextId = d.nextId
      /\ DOMAIN active = {"active"} /\ active.active = d.active
      /\ DOMAIN layers = {"layers"} /\ layers.layers = LayerEntries(d.layers)
      /\ DOMAIN objects = {"objects"} /\ objects.objects = ObjectEntries(d.objects)
  OBVIOUS
<1> HIDE DEF version, nextId, active, layers, objects
<1>5. /\ Written(d) \in Seq(MemberType) /\ Len(Written(d)) = 5
      /\ Written(d)[1] = version /\ Written(d)[2] = nextId /\ Written(d)[3] = active
      /\ Written(d)[4] = layers /\ Written(d)[5] = objects
  BY <1>1, <1>3
<1> QED
  BY <1>4, <1>5

\* An object that is read as it was written.
Readable(object) == object.width > 0 /\ ~ Infinite(object)

\* A document whose layer names and numbers can be written, and whose objects are on layers
\* that exist, is read from its file as it was.
LEMMA ReadAgain ==
  ASSUME NEW d, Solid(d), d.active \in IdsOf(d.layers), OnLayers(d),
         \A layer \in ToSet(d.layers) : layer.name \notin ControlNames,
         \A object \in ToSet(d.objects) : Readable(object)
  PROVE  /\ CanRead(Complete(d))
         /\ Read(Complete(d)).objects = d.objects
         /\ Read(Complete(d)).layers = d.layers
         /\ Read(Complete(d)).active = d.active
         /\ Read(Complete(d)).nextId = d.nextId
<1> DEFINE file == Complete(d)
           w == Written(d)
           q == MemberLoop(file)
<1>1. /\ d \in DocumentType(Names) /\ d.objects \in Objects /\ d.layers \in Layers(Names)
      /\ d.nextId \in Nat /\ d.active \in Nat
  BY DocumentIs DEF Sound, Solid
<1>2. file.members = w /\ file.whole = TRUE
  BY DEF Complete
<1>3. /\ w \in Seq(MemberType) /\ Len(w) = 5
      /\ DOMAIN w[1] = {"version"} /\ w[1].version = 2
      /\ DOMAIN w[2] = {"nextId"} /\ w[2].nextId = d.nextId
      /\ DOMAIN w[3] = {"active"} /\ w[3].active = d.active
      /\ DOMAIN w[4] = {"layers"} /\ w[4].layers = d.layers
      /\ DOMAIN w[5] = {"objects"} /\ w[5].objects = d.objects
  <2>1. /\ w \in Seq(MemberType) /\ Len(w) = 5
        /\ DOMAIN w[1] = {"version"} /\ w[1].version = 2
        /\ DOMAIN w[2] = {"nextId"} /\ w[2].nextId = d.nextId
        /\ DOMAIN w[3] = {"active"} /\ w[3].active = d.active
        /\ DOMAIN w[4] = {"layers"} /\ w[4].layers = LayerEntries(d.layers)
        /\ DOMAIN w[5] = {"objects"} /\ w[5].objects = ObjectEntries(d.objects)
    BY <1>1, WrittenIs
  <2>2. LayerEntries(d.layers) = d.layers
    BY <1>1, LayerEntriesAre
  <2>3. ObjectEntries(d.objects) = d.objects
    BY <1>1, ObjectEntriesAre DEF Readable
  <2> HIDE DEF file, w, q
  <2> QED
    BY <2>1, <2>2, <2>3
<1>4. file \in FileType
  BY <1>3 DEF FileType, Complete
<1>5. /\ ReadMembers(file) = q[5] /\ q \in [0 .. 5 -> SoundReads] /\ q[0] = Reading
      /\ \A i \in 1 .. 5 : q[i] = ReadMember(q[i - 1], w[i])
  <2>1. Len(file.members) = 5 /\ file.members = w
    BY <1>2, <1>3
  <2>2. /\ ReadMembers(file) = q[Len(file.members)]
        /\ q \in [0 .. Len(file.members) -> SoundReads] /\ q[0] = Reading
        /\ \A i \in 1 .. Len(file.members) : q[i] = ReadMember(q[i - 1], file.members[i])
    BY <1>4, MemberLoopDef
  <2> HIDE DEF file, w, q
  <2> QED
    BY <2>1, <2>2
<1> HIDE DEF file, w, q
<1> DEFINE r1 == q[1]  r2 == q[2]  r3 == q[3]  r4 == q[4]  r5 == q[5]
           m1 == w[1]  m2 == w[2]  m3 == w[3]  m4 == w[4]  m5 == w[5]
<1>6. /\ Reading \in SoundReads /\ r1 \in SoundReads /\ r2 \in SoundReads
      /\ r3 \in SoundReads /\ r4 \in SoundReads /\ r5 \in SoundReads
      /\ ReadMembers(file) = r5
  BY <1>5, ReadingIs
<1>7. /\ r1 = ReadMember(Reading, m1) /\ r2 = ReadMember(r1, m2) /\ r3 = ReadMember(r2, m3)
      /\ r4 = ReadMember(r3, m4) /\ r5 = ReadMember(r4, m5)
      /\ DOMAIN m1 = {"version"} /\ m1.version = 2
      /\ DOMAIN m2 = {"nextId"} /\ m2.nextId = d.nextId
      /\ DOMAIN m3 = {"active"} /\ m3.active = d.active
      /\ DOMAIN m4 = {"layers"} /\ m4.layers = d.layers
      /\ DOMAIN m5 = {"objects"} /\ m5.objects = d.objects
  BY <1>3, <1>5
<1> HIDE DEF r1, r2, r3, r4, r5, m1, m2, m3, m4, m5
<1>8. /\ r1.doc = NewDocument /\ r1.accepted = TRUE /\ r1.version = 2
  <2>1. r1 = VersionRead(Reading, 2)
    BY <1>7, ReadMemberBy
  <2> QED
    BY <1>6, <2>1, VersionReadIs, ReadingIs
<1>9. /\ r2.doc = NewDocument /\ r2.accepted = TRUE /\ r2.version = 2
      /\ r2.nextId = d.nextId
  <2>1. r2 = NextIdRead(r1, d.nextId)
    BY <1>7, ReadMemberBy
  <2> QED
    BY <1>1, <1>6, <1>8, <2>1, NextIdReadIs
<1>10. /\ r3.doc = NewDocument /\ r3.accepted = TRUE /\ r3.version = 2
       /\ r3.nextId = d.nextId /\ r3.active = d.active
  <2>1. r3 = ActiveRead(r2, d.active)
    BY <1>7, ReadMemberBy
  <2> QED
    BY <1>1, <1>6, <1>9, <2>1, ActiveReadIs
<1>11. /\ r4.doc.objects = << >> /\ r4.doc.layers = d.layers /\ r4.accepted = TRUE
       /\ r4.version = 2 /\ r4.nextId = d.nextId /\ r4.active = d.active
       /\ r4.layersSeen = TRUE
  <2> DEFINE b == LayersBegun(r3)
  <2>1. r4 = LayersRead(b, d.layers)
    BY <1>7, ReadMemberBy
  <2>2. /\ b \in SoundReads /\ b.doc.objects = << >> /\ b.doc.layers = << >>
        /\ b.layersSeen = TRUE /\ b.accepted = TRUE /\ b.version = 2
        /\ b.nextId = d.nextId /\ b.active = d.active
    BY <1>6, <1>10, LoopsBegin, NewDocumentIsSound
  <2>3. /\ Distinct(d.layers) /\ NoId \notin IdsOf(d.layers)
        /\ \A layer \in ToSet(d.layers) : layer.name # Unreadable
    BY DEF Sound, Solid
  <2> HIDE DEF b
  <2>4. /\ SameHeader(r4, b) /\ r4.doc.objects = b.doc.objects
        /\ r4.doc.layers = d.layers /\ r4.accepted = b.accepted
    BY <1>1, <2>1, <2>2, <2>3, LayersReadIs
  <2> QED
    BY <2>2, <2>4 DEF SameHeader
<1>12. /\ r5.doc.objects = d.objects /\ r5.doc.layers = d.layers /\ r5.accepted = TRUE
       /\ r5.version = 2 /\ r5.nextId = d.nextId /\ r5.active = d.active
       /\ r5.layersSeen = TRUE /\ r5.objectsSeen = TRUE
  <2> DEFINE b == ObjectsBegun(r4)
  <2>1. r5 = ObjectsRead(b, d.objects)
    BY <1>7, ReadMemberBy
  <2>2. /\ b \in SoundReads /\ b.doc.objects = << >> /\ b.doc.layers = d.layers
        /\ b.layersSeen = TRUE /\ b.objectsSeen = TRUE /\ b.accepted = TRUE /\ b.version = 2
        /\ b.nextId = d.nextId /\ b.active = d.active
    BY <1>6, <1>11, LoopsBegin
  <2>3. /\ Distinct(d.objects) /\ NoId \notin IdsOf(d.objects)
        /\ \A object \in ToSet(d.objects) :
             object.layer \in IdsOf(b.doc.layers) /\ object.width > 0
    BY <2>2 DEF Sound, Solid, OnLayers, Readable
  <2> HIDE DEF b
  <2>4. /\ SameHeader(r5, b) /\ r5.doc.layers = b.doc.layers
        /\ r5.doc.objects = d.objects /\ r5.accepted = b.accepted
    BY <1>1, <2>1, <2>2, <2>3, ObjectsReadIs
  <2> QED
    BY <2>2, <2>4 DEF SameHeader
<1> DEFINE r == ReadMembers(file)
<1>13. r = r5 /\ r \in SoundReads
  BY <1>6
<1> HIDE DEF r
<1>14. d.layers # << >>
  BY DEF IdsOf, ToSet
<1>15. ~ Relayered(r)
  BY <1>12, <1>13, <1>14 DEF Relayered
<1>16. CanRead(file)
  BY <1>2, <1>12, <1>13 DEF CanRead, r
<1>17. Read(file) = Finished(r)
  BY DEF Read, r
<1>18. /\ Finished(r).objects = d.objects /\ Finished(r).layers = d.layers
  BY <1>12, <1>13, <1>15, FinishedIs
<1>19. Finished(r).active = d.active
  BY <1>12, <1>13, <1>18, FinishedIs
<1>20. Finished(r).nextId = d.nextId
  <2>1. 0 < d.nextId /\ \A id \in IdsOf(d.objects) : id < d.nextId
    BY DEF Solid, Counted
  <2> QED
    BY <1>12, <1>13, <2>1, FinishedIs
<1> QED
  BY <1>16, <1>17, <1>18, <1>19, <1>20 DEF file

\* What a save promises is what the file that it leaves holds.
LEMMA PromiseIsKept ==
  ASSUME NEW d, Solid(d), d.active \in IdsOf(d.layers), Promise(d) # NoPromise
  PROVE  CanRead(Complete(d)) /\ Promise(Read(Complete(d))) = Promise(d)
<1> DEFINE e == Read(Complete(d))
           fits(doc) == /\ \A layer \in ToSet(doc.layers) : layer.name \notin ControlNames
                        /\ \A object \in ToSet(doc.objects) :
                             /\ object.layer \in IdsOf(doc.layers)
                             /\ ~ (object.width <= 0)
                             /\ ~ Infinite(object)
           what(doc) == [objects |-> doc.objects, layers |-> doc.layers, active |-> doc.active,
                         nextId |-> doc.nextId]
<1>1. ASSUME NEW doc
      PROVE  Promise(doc) = IF fits(doc) THEN what(doc) ELSE NoPromise
  <2>1. LayerIds(doc) = IdsOf(doc.layers)
    BY QueriesAre
  <2> QED
    BY <2>1 DEF Promise
<1>2. fits(d)
  BY <1>1
<1>3. /\ CanRead(Complete(d)) /\ e.objects = d.objects /\ e.layers = d.layers
      /\ e.active = d.active /\ e.nextId = d.nextId
  <2>1. d.objects \in Seq(ObjectType)
    BY DocumentIs DEF Solid, Sound, Objects
  <2>2. \A object \in ToSet(d.objects) : object \in ObjectType
    BY <2>1, LenProperties, ElementOfSeq DEF ToSet
  <2>3. \A object \in ToSet(d.objects) : Readable(object)
    BY <1>2, <2>2 DEF Readable, ObjectType
  <2>4. OnLayers(d) /\ \A layer \in ToSet(d.layers) : layer.name \notin ControlNames
    BY <1>2 DEF OnLayers
  <2> QED
    BY <2>3, <2>4, ReadAgain
<1> HIDE DEF e
<1>4. fits(e)
  BY <1>2, <1>3
<1>5. what(e) = what(d)
  BY <1>3
<1> HIDE DEF fits, what
<1>6. Promise(e) = Promise(d)
  BY <1>1, <1>2, <1>4, <1>5
<1> QED
  BY <1>3, <1>6 DEF e
-----------------------------------------------------------------------------
(* The open document and the files *)

\* What holds of the open document, which may be from a misplaced file and may have had the
\* largest id.
IsOpen(doc, fromMisplaced, hadLargest) ==
  /\ doc \in DocumentType(Names)
  /\ doc.active \in IdsOf(doc.layers)
  /\ fromMisplaced \/ OnLayers(doc)
  /\ hadLargest \/ Solid(doc)

FilesTyped == \A name \in FileNames : files[name] \in FileType

\* The open document, the types of the files, and what the last saves have put into them.
DInv ==
  /\ IsOpen(document, misplaced, exhausted)
  /\ FilesTyped
  /\ DOMAIN promised = Paths
  /\ SavedSurvives

\* A document without the largest id has its counters ahead of its ids.
LEMMA SoundIsSolid ==
  ASSUME NEW doc, Sound(doc), ~ HoldsLargest(doc)
  PROVE  Solid(doc)
BY QueriesAre DEF HoldsLargest, Sound, Solid, ObjectsAreBehind, LayersAreBehind, Counted

\* document_load_json: it is the document of the file, or the one that was open.
LEMMA OpenedIs ==
  ASSUME NEW doc, NEW m, NEW l, IsOpen(doc, m, l), NEW file \in FileType
  PROVE  IsOpen(Opened(doc, file), IF CanRead(file) THEN Misplaced(file) ELSE m,
                IF CanRead(file) THEN HoldsLargest(Read(file)) ELSE l)
<1>1. CASE CanRead(file)
  <2>1. Opened(doc, file) = Read(file)
    BY <1>1 DEF Opened
  <2> QED
    BY <1>1, <2>1, ReadIs, SoundIsSolid DEF IsOpen, Sound
<1>2. CASE ~ CanRead(file)
  BY <1>2 DEF Opened
<1> QED
  BY <1>1, <1>2

\* What is appended joins the others, what is removed leaves them.
LEMMA AppendMembers ==
  ASSUME NEW S, NEW s \in Seq(S), NEW e \in S
  PROVE  ToSet(Append(s, e)) = ToSet(s) \union {e}
<1>1. Len(s) + 1 \in 1 .. (Len(s) + 1)
  BY LenProperties
<1>2. InsertAt(s, Len(s) + 1, e) = Append(s, e)
  BY AppendInserts
<1>3. ToSet(InsertAt(s, Len(s) + 1, e)) = ToSet(s) \union {e}
  BY <1>1, InsertMembers
<1> QED
  BY <1>2, <1>3

\* What is left after one element is taken out was there before (document_remove_object).
LEMMA RemoveMembers ==
  ASSUME NEW S, NEW s \in Seq(S), NEW i \in 1 .. Len(s)
  PROVE  ToSet(RemoveAt(s, i)) \subseteq ToSet(s)
<1> DEFINE t == RemoveAt(s, i)
<1>1. DOMAIN s = 1 .. Len(s) /\ Len(s) \in Nat
  BY LenProperties
<1>2. /\ t \in Seq(S) /\ Len(t) = Len(s) - 1
      /\ \A j \in 1 .. (Len(s) - 1) : t[j] = IF j < i THEN s[j] ELSE s[j + 1]
  BY RemoveAtIs
<1> HIDE DEF t
<1>3. DOMAIN t = 1 .. (Len(s) - 1)
  BY <1>2, LenProperties
<1>4. ASSUME NEW j \in DOMAIN t
      PROVE  t[j] \in ToSet(s)
  <2>1. j \in DOMAIN s /\ j + 1 \in DOMAIN s
    BY <1>1, <1>3
  <2> QED
    BY <1>2, <1>3, <2>1 DEF ToSet
<1> QED
  BY <1>4 DEF ToSet, t

\* Drawing: the object is put on a layer that exists, and its id moves the counter.
LEMMA DrawnIsOpen ==
  ASSUME IsOpen(document, misplaced, exhausted), NEW shape \in Shapes, DrawObject(shape)
  PROVE  IsOpen(document', misplaced', exhausted')
<1> DEFINE d == document
           object == [id |-> NoId, layer |-> DefaultLayer, x |-> shape.x, width |-> shape.width]
           l == LayerFor(d.layers, d.active, 1)
           o == Placed(object, d.nextId, l)
           e == AppendObject(d, object, d.nextId, 1)
<1>1. /\ document' = e /\ misplaced' = misplaced
      /\ exhausted' = (exhausted \/ d.nextId = UIntMax)
  BY DEF DrawObject, Edited, DefaultLayer
<1>2. d \in DocumentType(Names) /\ d.active \in IdsOf(d.layers)
  BY DEF IsOpen
<1>3. /\ d.nextId \in Nat /\ d.active \in Nat /\ d.layers \in Layers(Names)
      /\ d.objects \in Seq(ObjectType)
  BY <1>2, DocumentIs DEF Objects
<1>4. object \in ObjectType
  BY ShapesAssumption DEF ObjectType, NoId, DefaultLayer
<1>5. l \in Nat /\ l \in IdsOf(d.layers)
  BY <1>2, <1>3, LayerForIs
<1> HIDE DEF object, l
<1>6. o \in ObjectType /\ o.layer = l
  <2> DEFINE id == d.nextId
             p == Placed(object, id, l)
  <2>1. id \in Nat /\ object \in ObjectType /\ l \in Nat
    BY <1>3, <1>4, <1>5
  <2> HIDE DEF id
  <2>2. p \in ObjectType /\ p.layer = l
    BY ONLY <2>1, PlacedIs
  <2> QED
    BY <2>2 DEF id
<1>7. /\ e = Doc(Append(d.objects, o), d.layers, d.active, Past(d.nextId, d.nextId),
                 d.nextLayer, TRUE)
      /\ e \in DocumentType(Names)
  BY <1>2, <1>3, <1>4, AppendObjectIs DEF l
<1>8. ToSet(Append(d.objects, o)) = ToSet(d.objects) \union {o}
  BY <1>3, <1>6, AppendMembers
<1>9. ASSUME ~ exhausted, d.nextId # UIntMax
      PROVE  Solid(e)
  <2>1. Solid(d) /\ Sound(d)
    BY <1>9 DEF IsOpen, Solid
  <2>2. d.nextId # NoId /\ d.nextId \notin IdsOf(d.objects)
    BY <1>3, <2>1 DEF Solid, Counted, NoId
  <2>3. CanAppendObject(d, d.nextId, 1)
    <3>1. ResolvedLayer(d, 1) = l
      BY ResolvedLayerIs DEF l
    <3> QED
      BY <1>5, <2>2, <3>1, QueriesAre DEF CanAppendObject
  <2> HIDE DEF d, e
  <2> QED
    BY <1>3, <1>4, <1>9, <2>1, <2>2, <2>3, ObjectAdded DEF e
<1> HIDE DEF e, o
<1>10. /\ e.layers = d.layers /\ e.active = d.active
       /\ e.objects = Append(d.objects, o)
  BY <1>7 DEF Doc
<1>11. OnLayers(d) => OnLayers(e)
  BY <1>5, <1>6, <1>8, <1>10 DEF OnLayers
<1>12. (misplaced \/ OnLayers(d)) /\ (exhausted \/ Solid(d))
  BY DEF IsOpen
<1> HIDE DEF d
<1> QED
  BY <1>1, <1>2, <1>7, <1>9, <1>10, <1>11, <1>12 DEF IsOpen

\* Deleting: what is left has no new ids.
LEMMA DeletedIsOpen ==
  ASSUME IsOpen(document, misplaced, exhausted), NEW id, DeleteObject(id)
  PROVE  IsOpen(document', misplaced', exhausted')
<1> DEFINE d == document
           i == IndexOf(d.objects, id)
           s == RemoveAt(d.objects, i)
           e == RemoveObject(d, id)
<1>1. document' = e /\ misplaced' = misplaced /\ exhausted' = exhausted
  BY DEF DeleteObject, Edited
<1>2. /\ d \in DocumentType(Names) /\ d.active \in IdsOf(d.layers)
      /\ misplaced \/ OnLayers(d)
      /\ exhausted \/ Solid(d)
  BY DEF IsOpen
<1>3. d.objects \in Seq(ObjectType)
  BY <1>2, DocumentIs DEF Objects
<1>4. CASE id \notin IdsOf(d.objects)
  <2>1. e = d
    BY <1>2, <1>4, RemoveObjectIs
  <2> QED
    BY <1>1, <2>1
<1>5. CASE id \in IdsOf(d.objects)
  <2>1. /\ e = Doc(s, d.layers, d.active, d.nextId, d.nextLayer, TRUE)
        /\ e \in DocumentType(Names)
    BY <1>2, <1>5, RemoveObjectIs
  <2>2. i \in 1 .. Len(d.objects)
    BY <1>3, <1>5, IndexOfFinds
  <2> HIDE DEF d, i
  <2>3. ToSet(s) \subseteq ToSet(d.objects)
    BY <1>3, <2>2, RemoveMembers
  <2>4. IdsOf(s) \subseteq IdsOf(d.objects)
    BY <2>3 DEF IdsOf
  <2>5. Distinct(d.objects) => Distinct(s)
    BY <1>3, <2>2, RemoveDistinct
  <2> HIDE DEF s, e
  <2>6. /\ e.objects = s /\ e.layers = d.layers /\ e.active = d.active
        /\ e.nextId = d.nextId /\ e.nextLayer = d.nextLayer
    BY <2>1 DEF Doc
  <2>7. ASSUME Solid(d)
        PROVE  Solid(e)
    <3>1. /\ Distinct(d.objects) /\ Distinct(d.layers) /\ Counted(d) /\ 0 < d.nextId
          /\ NoId \notin IdsOf(d.objects) /\ NoId \notin IdsOf(d.layers)
          /\ \A layer \in ToSet(d.layers) : layer.name # Unreadable
      BY <2>7 DEF Solid, Sound
    <3>2. Counted(e) /\ 0 < e.nextId
      BY <2>4, <2>6, <3>1 DEF Counted
    <3>3. ObjectsAreBehind(e) /\ LayersAreBehind(e)
      BY <3>2 DEF Counted, ObjectsAreBehind, LayersAreBehind
    <3> QED
      BY <2>1, <2>4, <2>5, <2>6, <3>1, <3>2, <3>3 DEF Solid, Sound
  <2>8. OnLayers(d) => OnLayers(e)
    BY <2>3, <2>6 DEF OnLayers
  <2> QED
    BY <1>1, <1>2, <2>1, <2>6, <2>7, <2>8 DEF IsOpen
<1> QED
  BY <1>4, <1>5

\* A new layer is behind the others and has the next id; unless that is 0, it becomes the
\* active one.
LEMMA LayerIsOpen ==
  ASSUME IsOpen(document, misplaced, exhausted), CreateLayer
  PROVE  IsOpen(document', misplaced', exhausted')
<1> DEFINE d == document
           id == d.nextLayer
           layer == NewLayer(id, DefaultName)
           m == InsertLayer(d, layer, Len(d.layers) + 1)
           e == IF id = NoId THEN m ELSE SetActiveLayer(m, id)
<1>1. /\ document' = e /\ misplaced' = misplaced
      /\ exhausted' = (exhausted \/ id = UIntMax)
  BY DEF CreateLayer, Edited
<1>2. /\ d \in DocumentType(Names) /\ d.active \in IdsOf(d.layers)
      /\ misplaced \/ OnLayers(d)
      /\ exhausted \/ Solid(d)
  BY DEF IsOpen
<1>3. /\ id \in Nat /\ d.layers \in Layers(Names) /\ IdsOf(d.layers) \subseteq Nat
      /\ Len(d.layers) \in Nat
  BY <1>2, DocumentIs, IdsAreNat, LenProperties DEF Layers
<1>4. layer \in LayerType(Names) /\ layer.id = id /\ layer.name = DefaultName
  BY <1>3, NamesAssumption DEF NewLayer, LayerType
<1> HIDE DEF d, layer, id
<1>5. /\ m \in DocumentType(Names) /\ m.objects = d.objects /\ m.active = d.active
      /\ m.layers = Append(d.layers, layer)
  <2>1. Len(d.layers) + 1 \in Nat \ {0} /\ Len(d.layers) + 1 > Len(d.layers)
    BY <1>3
  <2>2. /\ m = Doc(d.objects, InsertAt(d.layers, Len(d.layers) + 1, layer), d.active, d.nextId,
                   Past(d.nextLayer, layer.id), TRUE)
        /\ m \in DocumentType(Names)
    BY <1>2, <1>4, <2>1, InsertLayerIs
  <2>3. InsertAt(d.layers, Len(d.layers) + 1, layer) = Append(d.layers, layer)
    BY <1>3, <1>4, AppendInserts DEF Layers
  <2> HIDE DEF m
  <2> QED
    BY <2>2, <2>3 DEF Doc
<1> HIDE DEF m
<1>6. ToSet(m.layers) = ToSet(d.layers) \union {layer}
  <2>1. d.layers \in Seq(LayerType(Names)) /\ layer \in LayerType(Names)
    BY <1>3, <1>4 DEF Layers
  <2>2. ToSet(Append(d.layers, layer)) = ToSet(d.layers) \union {layer}
    BY <2>1, AppendMembers
  <2> QED
    BY <1>5, <2>2
<1>7. IdsOf(m.layers) = IdsOf(d.layers) \union {id}
  BY <1>4, <1>6 DEF IdsOf
<1>8. ASSUME Solid(d), id # UIntMax
      PROVE  Solid(m) /\ id # NoId
  <2>1. id \notin IdsOf(d.layers)
    BY <1>3, <1>8 DEF Solid, Counted, id
  <2>2. id # NoId
    <3>1. d.active \in Nat /\ d.active < id
      BY <1>2, <1>3, <1>8 DEF Solid, Counted, id
    <3> QED
      BY <1>3, <3>1 DEF NoId
  <2>3. Sound(d)
    BY <1>8 DEF Solid
  <2> QED
    BY <1>4, <1>8, <2>1, <2>2, <2>3, NamesAssumption, LayerAdded DEF m
<1>9. /\ e \in DocumentType(Names) /\ e.objects = m.objects /\ e.layers = m.layers
      /\ e.active = IF id = NoId THEN d.active ELSE id
      /\ Solid(m) => Solid(e)
  <2>1. CASE id = NoId
    BY <1>5, <2>1
  <2>2. CASE id # NoId
    <3> DEFINE f == SetActiveLayer(m, id)
    <3>1. /\ f \in DocumentType(Names) /\ Advance(m, f)
          /\ Content(f) = View(m.objects, m.layers, id)
      BY <1>3, <1>5, SetActiveLayerIs
    <3>2. e = f
      BY <2>2
    <3> HIDE DEF f, e
    <3>3. /\ f.objects = m.objects /\ f.layers = m.layers /\ f.active = id
          /\ m.nextId <= f.nextId
      BY <3>1 DEF Content, View, Advance
    <3>4. ASSUME Solid(m)
          PROVE  Solid(f)
      <4>1. Counted(f)
        BY <1>5, <3>1, <3>3, <3>4, CountedStill DEF Solid
      <4>2. 0 < f.nextId
        <5>1. m.nextId \in Nat /\ f.nextId \in Nat
          BY <1>5, <3>1, DocumentIs
        <5> QED
          BY <3>3, <3>4, <5>1 DEF Solid
      <4>3. ObjectsAreBehind(f) /\ LayersAreBehind(f)
        BY <4>1, <4>2 DEF Counted, ObjectsAreBehind, LayersAreBehind
      <4> QED
        BY <3>1, <3>3, <3>4, <4>1, <4>2, <4>3 DEF Solid, Sound
    <3> QED
      BY <2>2, <3>1, <3>2, <3>3, <3>4
  <2> QED
    BY <2>1, <2>2
<1> HIDE DEF e
<1>10. e.active \in IdsOf(e.layers)
  BY <1>2, <1>7, <1>9
<1>11. OnLayers(d) => OnLayers(e)
  BY <1>5, <1>7, <1>9 DEF OnLayers
<1> QED
  BY <1>1, <1>2, <1>8, <1>9, <1>10, <1>11 DEF IsOpen

\* A save that has succeeded is remembered in the document.
LEMMA SavedIsOpen ==
  ASSUME NEW doc, NEW m, NEW l, IsOpen(doc, m, l)
  PROVE  IsOpen([doc EXCEPT !.revised = FALSE], m, l)
<1> DEFINE e == [doc EXCEPT !.revised = FALSE]
<1>1. doc \in DocumentType(Names)
  BY DEF IsOpen
<1>2. /\ e \in DocumentType(Names) /\ e.objects = doc.objects /\ e.layers = doc.layers
      /\ e.active = doc.active /\ e.nextId = doc.nextId /\ e.nextLayer = doc.nextLayer
  BY <1>1 DEF DocumentType
<1> HIDE DEF e
<1>3. Solid(doc) => Solid(e)
  BY <1>2 DEF Solid, Sound, Counted, ObjectsAreBehind, LayersAreBehind
<1>4. IsOpen(e, m, l)
  BY <1>2, <1>3 DEF IsOpen, OnLayers
<1> QED
  BY <1>4 DEF e
-----------------------------------------------------------------------------
(* The open document and the files in every step *)

\* document_init has made the document, and there are no files.
LEMMA InitDocuments == Init => DInv
<1> SUFFICES ASSUME Init PROVE DInv
  OBVIOUS
<1>1. /\ document = NewDocument /\ misplaced = FALSE /\ exhausted = FALSE
      /\ files = [name \in FileNames |-> Missing]
      /\ promised = [path \in Paths |-> NoPromise]
  BY DEF Init
<1>2. Missing \in FileType
  BY DEF Missing, FileType
<1> QED
  BY <1>1, <1>2, NewDocumentIsSound DEF DInv, IsOpen, FilesTyped, SavedSurvives, Sound

\* What leaves the documents' files alone keeps what was saved into them.
LEMMA TargetsAreLeft ==
  ASSUME DInv, IsOpen(document', misplaced', exhausted'), FilesTyped', promised' = promised,
         \A path \in Paths : files'[TargetName(path)] = files[TargetName(path)]
  PROVE  DInv'
BY DEF DInv, SavedSurvives

\* What is put into the temporary file of a save is a file, and stays beside the others.
LEMMA TempStep ==
  ASSUME IInv, DInv, NEW path \in Paths, NEW file \in FileType,
         files' = [files EXCEPT ![TempName(path)] = file],
         UNCHANGED <<document, promised, misplaced, exhausted>>
  PROVE  DInv'
<1>1. DOMAIN files = FileNames
  BY DEF IInv, Typed
<1>2. FilesTyped'
  BY <1>1 DEF DInv, FilesTyped
<1>3. \A other \in Paths : files'[TargetName(other)] = files[TargetName(other)]
  BY <1>1, FileNamesDiffer
<1>4. IsOpen(document', misplaced', exhausted')
  BY DEF DInv
<1> QED
  BY <1>2, <1>3, <1>4, TargetsAreLeft

\* A save begins, writes one more member or fails.
LEMMA SavingStep ==
  ASSUME IInv, DInv, (\E path \in Paths : OpenTemp(path)) \/ WriteMember \/ WriteFails
  PROVE  DInv'
<1>1. Missing \in FileType
  BY DEF Missing, FileType
<1>2. saver.path \in Paths /\ saver.written \in Nat
  BY DEF IInv, Typed
<1>3. CASE \E path \in Paths : OpenTemp(path)
  <2>1. PICK path \in Paths : OpenTemp(path)
    BY <1>3
  <2> QED
    BY <1>1, <2>1, TempStep DEF OpenTemp
<1>4. CASE WriteMember
  <2> DEFINE members == Written(document)
             written == saver.written + 1
             partial == [members |-> SubSeq(members, 1, written),
                         whole   |-> written = Len(members)]
  <2>1. /\ files' = [files EXCEPT ![TempName(saver.path)] = partial]
        /\ UNCHANGED <<document, promised, misplaced, exhausted>>
    BY <1>4 DEF WriteMember
  <2>2. members \in Seq(MemberType) /\ Len(members) = 5
    BY WrittenIs DEF DInv, IsOpen
  <2>3. written \in 1 .. 5
    <3>1. saver.stage = "write" /\ saver.written \in 0 .. 4
      BY <1>2, <1>4 DEF WriteMember, IInv, MoreToWrite
    <3> HIDE DEF members, partial
    <3> QED
      BY <3>1
  <2> HIDE DEF members, written
  <2>4. SubSeq(members, 1, written) \in Seq(MemberType)
    <3>1. written \in 1 .. Len(members) /\ written \in Int
      BY <2>2, <2>3
    <3>2. ASSUME NEW j \in 1 .. written
          PROVE  members[j] \in MemberType
      <4>1. j \in 1 .. Len(members)
        BY <2>2, <3>1
      <4> QED
        BY <2>2, <4>1, ElementOfSeq
    <3>3. SubSeq(members, 1, written) = [j \in 1 .. written |-> members[j]]
      BY <2>2, <3>1, SubSeqProperties
    <3> QED
      BY <3>1, <3>2, <3>3
  <2>5. partial \in FileType
    BY <2>4 DEF FileType
  <2> HIDE DEF partial
  <2> QED
    BY <1>2, <2>1, <2>5, TempStep
<1>5. CASE WriteFails
  BY <1>1, <1>2, <1>5, TempStep DEF WriteFails
<1> QED
  BY <1>3, <1>4, <1>5

\* The rename: what takes the place of the target is the whole of the open document.
LEMMA ReplaceStep ==
  ASSUME IInv, DInv, ReplaceTarget
  PROVE  DInv'
<1> DEFINE path == saver.path
<1>1. path \in Paths /\ DOMAIN files = FileNames /\ DOMAIN promised = Paths
  BY DEF IInv, Typed, DInv
<1>2. files[TempName(path)] = Complete(document)
  BY DEF ReplaceTarget, IInv, TempComplete
<1>3. /\ files' = [files EXCEPT ![TargetName(path)] = Complete(document),
                                ![TempName(path)] = Missing]
      /\ promised' = [promised EXCEPT ![path] =
                        IF exhausted THEN NoPromise ELSE Promise(document)]
      /\ document' = [document EXCEPT !.revised = FALSE]
      /\ misplaced' = misplaced /\ exhausted' = exhausted
  BY <1>2 DEF ReplaceTarget
<1>4. /\ document \in DocumentType(Names) /\ document.active \in IdsOf(document.layers)
      /\ exhausted \/ Solid(document)
  BY DEF DInv, IsOpen
<1>5. Missing \in FileType /\ Complete(document) \in FileType
  <2>1. Written(document) \in Seq(MemberType)
    BY <1>4, WrittenIs
  <2> QED
    BY <2>1 DEF Missing, Complete, FileType
<1>6. IsOpen(document', misplaced', exhausted')
  BY <1>3, SavedIsOpen DEF DInv
<1> HIDE DEF path
<1>7. FilesTyped'
  BY <1>1, <1>3, <1>5 DEF DInv, FilesTyped
<1>8. /\ files'[TargetName(path)] = Complete(document)
      /\ promised'[path] = IF exhausted THEN NoPromise ELSE Promise(document)
      /\ \A other \in Paths : other # path =>
           /\ files'[TargetName(other)] = files[TargetName(other)]
           /\ promised'[other] = promised[other]
  BY <1>1, <1>3, FileNamesDiffer
<1>9. SavedSurvives'
  <2> SUFFICES ASSUME NEW other \in Paths, promised'[other] # NoPromise
               PROVE  /\ CanRead(files'[TargetName(other)])
                      /\ Promise(Read(files'[TargetName(other)])) = promised'[other]
    BY DEF SavedSurvives
  <2>1. CASE other = path
    BY <1>4, <1>8, <2>1, PromiseIsKept
  <2>2. CASE other # path
    BY <1>8, <2>2 DEF DInv, SavedSurvives
  <2> QED
    BY <2>1, <2>2
<1>10. DOMAIN promised' = Paths
  BY <1>1, <1>3
<1> QED
  BY <1>6, <1>7, <1>9, <1>10 DEF DInv

\* Nothing is claimed of a file that another program has written.
LEMMA ForeignFileStep ==
  ASSUME IInv, DInv, NEW path \in Paths, NEW file \in ForeignFiles, Foreign(path, file)
  PROVE  DInv'
<1>1. DOMAIN files = FileNames /\ DOMAIN promised = Paths
  BY DEF IInv, Typed, DInv
<1>2. /\ files' = [files EXCEPT ![TargetName(path)] = file]
      /\ promised' = [promised EXCEPT ![path] = NoPromise]
      /\ document' = document /\ misplaced' = misplaced /\ exhausted' = exhausted
  BY DEF Foreign
<1>3. FilesTyped'
  BY <1>1, <1>2, ForeignAssumption DEF DInv, FilesTyped
<1>4. /\ promised'[path] = NoPromise
      /\ \A other \in Paths : other # path =>
           /\ files'[TargetName(other)] = files[TargetName(other)]
           /\ promised'[other] = promised[other]
  BY <1>1, <1>2, FileNamesDiffer
<1>5. SavedSurvives'
  BY <1>4 DEF DInv, SavedSurvives
<1>6. IsOpen(document', misplaced', exhausted')
  BY <1>2 DEF DInv
<1>7. DOMAIN promised' = Paths
  BY <1>1, <1>2
<1> QED
  BY <1>3, <1>5, <1>6, <1>7 DEF DInv

\* Opening, starting again and editing leave the files alone, and the document whole.
LEMMA DocumentStep ==
  ASSUME DInv, Restart \/ Edit \/ \E path \in Paths : Open(path)
  PROVE  DInv'
<1>1. files' = files /\ promised' = promised
  BY DEF Restart, Edit, DrawObject, DeleteObject, CreateLayer, Edited, Open
<1>2. IsOpen(document, misplaced, exhausted)
  BY DEF DInv
<1>3. \A path \in Paths : files[TargetName(path)] \in FileType
  BY FileNamesDiffer DEF DInv, FilesTyped
<1>4. CASE Restart
  <2> DEFINE file == files[TargetName(Startup)]
  <2>1. /\ document' = Opened(NewDocument, file)
        /\ misplaced' = (CanRead(file) /\ Misplaced(file))
        /\ exhausted' = (CanRead(file) /\ HoldsLargest(Read(file)))
    BY <1>4 DEF Restart
  <2>2. file \in FileType
    BY <1>3, PathAssumption
  <2>3. IsOpen(NewDocument, FALSE, FALSE)
    BY NewDocumentIsSound DEF IsOpen, Sound
  <2> HIDE DEF file
  <2>4. IsOpen(Opened(NewDocument, file), IF CanRead(file) THEN Misplaced(file) ELSE FALSE,
               IF CanRead(file) THEN HoldsLargest(Read(file)) ELSE FALSE)
    BY <2>2, <2>3, OpenedIs
  <2>5. CASE CanRead(file)
    <3>1. (misplaced' <=> Misplaced(file)) /\ (exhausted' <=> HoldsLargest(Read(file)))
      BY <2>1, <2>5
    <3> QED
      BY <2>1, <2>4, <2>5, <3>1, <1>1, TargetsAreLeft DEF IsOpen, DInv, FilesTyped
  <2>6. CASE ~ CanRead(file)
    <3>1. misplaced' = FALSE /\ exhausted' = FALSE
      BY <2>1, <2>6
    <3> QED
      BY <2>1, <2>4, <2>6, <3>1, <1>1, TargetsAreLeft DEF DInv, FilesTyped
  <2> QED
    BY <2>5, <2>6
<1>5. CASE Edit \/ \E path \in Paths : Open(path)
  <2>1. IsOpen(document', misplaced', exhausted')
    <3>1. CASE \E shape \in Shapes : DrawObject(shape)
      BY <1>2, <3>1, DrawnIsOpen
    <3>2. CASE \E id \in ObjectIds(document) : DeleteObject(id)
      BY <1>2, <3>2, DeletedIsOpen
    <3>3. CASE CreateLayer
      BY <1>2, <3>3, LayerIsOpen
    <3>4. CASE \E path \in Paths : Open(path)
      <4>1. PICK path \in Paths : Open(path)
        BY <3>4
      <4>2. /\ document' = Opened(document, files[TargetName(path)])
            /\ misplaced' = IF CanRead(files[TargetName(path)])
                            THEN Misplaced(files[TargetName(path)]) ELSE misplaced
            /\ exhausted' = IF CanRead(files[TargetName(path)])
                            THEN HoldsLargest(Read(files[TargetName(path)])) ELSE exhausted
        BY <4>1 DEF Open
      <4> QED
        BY <1>2, <1>3, <4>2, OpenedIs
    <3> QED
      BY <1>5, <3>1, <3>2, <3>3, <3>4 DEF Edit
  <2>2. FilesTyped'
    BY <1>1 DEF DInv, FilesTyped
  <2> QED
    BY <1>1, <2>1, <2>2, TargetsAreLeft
<1> QED
  BY <1>4, <1>5

\* Every step keeps the open document whole and what was saved in its file.
LEMMA StepDocuments == IInv /\ DInv /\ [Next]_vars => DInv'
<1> SUFFICES ASSUME IInv, DInv, [Next]_vars PROVE DInv'
  OBVIOUS
<1>1. CASE Save
  BY <1>1, SavingStep, ReplaceStep DEF Save
<1>2. CASE \E path \in Paths, file \in ForeignFiles : Foreign(path, file)
  BY <1>2, ForeignFileStep
<1>3. CASE Restart \/ Edit \/ \E path \in Paths : Open(path)
  BY <1>3, DocumentStep
<1>4. CASE UNCHANGED vars
  BY <1>4 DEF vars, DInv, FilesTyped, SavedSurvives
<1> QED
  BY <1>1, <1>2, <1>3, <1>4 DEF Next

\* Both invariants hold in every reachable state.
LEMMA DocumentsInvariance == Spec => [](IInv /\ DInv)
BY InitInv, StepInv, InitDocuments, StepDocuments, PTL DEF Spec

\* document_save_json and document_load_json: what a save has put into a file can be read
\* again as it was, until that file is replaced or another program writes it.
THEOREM WhatWasSavedSurvives == Spec => []SavedSurvives
<1>1. DInv => SavedSurvives
  BY DEF DInv
<1> QED
  BY <1>1, DocumentsInvariance, PTL

\* document_load_json: whatever the file, the document that is open is whole, but for ids
\* once the largest has been in use.
THEOREM TheOpenDocumentIsWhole == Spec => []OpenedIsWhole
<1>1. DInv => OpenedIsWhole
  <2> SUFFICES ASSUME DInv PROVE OpenedIsWhole
    OBVIOUS
  <2> DEFINE d == document
  <2>1. /\ exhausted \/ Solid(d)
        /\ d.active \in IdsOf(d.layers)
        /\ misplaced \/ OnLayers(d)
        /\ d \in DocumentType(Names)
    BY DEF DInv, IsOpen
  <2>2. ObjectIds(d) = IdsOf(d.objects) /\ LayerIds(d) = IdsOf(d.layers)
    BY <2>1, QueriesAre
  <2>3. /\ d.objects \in Seq(ObjectType) /\ d.layers \in Seq(LayerType(Names))
    BY <2>1, DocumentIs DEF Objects, Layers
  <2>4. /\ DOMAIN d.objects = 1 .. Len(d.objects)
        /\ DOMAIN d.layers = 1 .. Len(d.layers)
    BY <2>3, LenProperties
  <2>5. ASSUME ~ exhausted
        PROVE  /\ IsInjective([i \in DOMAIN d.objects |-> d.objects[i].id])
               /\ IsInjective([i \in DOMAIN d.layers |-> d.layers[i].id])
    BY <2>1, <2>4, <2>5 DEF Solid, Sound, Distinct, IsInjective
  <2>6. ASSUME ~ exhausted
        PROVE  /\ \A id \in IdsOf(d.objects) : id < d.nextId
               /\ \A id \in IdsOf(d.layers) : id < d.nextLayer
    BY <2>1, <2>6 DEF Solid, Counted
  <2>7. ~misplaced => \A object \in ToSet(d.objects) : object.layer \in LayerIds(d)
    BY <2>1, <2>2 DEF OnLayers
  <2> QED
    BY <2>1, <2>2, <2>5, <2>6, <2>7 DEF OpenedIsWhole
<1> QED
  BY <1>1, DocumentsInvariance, PTL
=============================================================================
