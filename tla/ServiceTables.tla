---------------------------- MODULE ServiceTables ----------------------------
(***************************************************************************)
(* The tables of CServiceFilter: which program of the PAT is kept, which   *)
(* elementary streams of its PMT are selected, and the PAT and PMT sent in *)
(* their place (AddPat, AddPmt).                                           *)
(*                                                                         *)
(* The operators take the filter f, a record of its members, and give the  *)
(* filter after the call; ServiceFilter says what the fields are.  Tables  *)
(* are abstracted to what is decided on: a PMT section is a record         *)
(* [program, parts, pcrPid, fits, es]: es lists the streams, fits says     *)
(* that the program_info fits into the section and parts how many packets  *)
(* the table sent takes; a stream is a record [type, tag, pid], where tag  *)
(* is the slot its component_tag names.                                    *)
(***************************************************************************)
EXTENDS PtsClock, PesUnits, SequencesExt

CONSTANTS VersionMod,   \* version_number counts modulo this (32)
          NullPid       \* 0x1fff, a PMT without PCR

ASSUME VersionAssumption == VersionMod \in Nat /\ VersionMod >= 2

AudioSlots == {"audio1", "audio2"}
TextSlots  == {"caption", "superimpose"}
Slots      == {"video"} \cup AudioSlots \cup TextSlots

\* The order in which AddPmt writes the streams.
SlotOrder == <<"video", "audio1", "audio2", "caption", "superimpose">>

\* An audio slot without stream counts as ADTS.
NoStream == [type |-> "adts", tag |-> "none", pid |-> 0]
NoTable  == [version |-> 0, content |-> << >>]

Pid(f, x) == f.es[x].pid

\* Fault: the version is not counted up.
PublishUnversioned(last, content) == [last EXCEPT !.content = content]

\* A table is sent with the version before, unless its content is another.
Publish(last, content) ==
  IF last.content = content THEN last
  ELSE [version |-> (last.version + 1) % VersionMod, content |-> content]

-----------------------------------------------------------------------------
(* The PAT: a sequence of [program, pid] references.                       *)

NoRef == [program |-> 0, pid |-> 0]

FirstOf(refs) == IF refs = << >> THEN NoRef ELSE refs[1]

NitRef(refs) == FirstOf(SelectSeq(refs, LAMBDA r : r.program = 0))

\* The program asked for by its number, or by its place among the programs.
TargetRef(opt, refs) ==
  LET programs == SelectSeq(refs, LAMBDA r : r.program # 0)
      index    == -opt.program
  IN  IF opt.program < 0
      THEN IF index <= Len(programs) THEN programs[index] ELSE NoRef
      ELSE FirstOf(SelectSeq(programs, LAMBDA r : r.program = opt.program))

AddPat(f) ==
  LET content == [program |-> TargetRef(f.opt, f.pat).program,
                  nit     |-> NitRef(f.pat) # NoRef]
      table   == Publish(f.last["PAT"], content)
  IN  [f EXCEPT !.last["PAT"] = table,
                !.counter["PAT"] = Successor(@),
                !.packets = Append(@, [pid |-> "PAT", kind |-> "table",
                                       counter |-> Successor(f.counter["PAT"]),
                                       count |-> 1, table |-> table])]

\* The target is not in the PAT: no stream is selected any more.
Deselect(f) ==
  [f EXCEPT !.es = [x \in Slots |-> NoStream], !.pcrPid = 0, !.pcr = NoTime]

-----------------------------------------------------------------------------
(* The PMT.                                                                *)

\* The slot a stream is selected for, "" for none, given those selected before it.
SlotOf(es, e) ==
  CASE e.type = "video" /\ (e.tag = "video" \/ (e.tag = "none" /\ es["video"] = NoStream))
         -> "video"
    [] e.type = "adts" /\ (e.tag = "audio1" \/ (e.tag = "none" /\ es["audio1"] = NoStream))
         -> "audio1"
    [] e.type = "adts" /\ e.tag = "audio2" -> "audio2"
    [] e.type = "mpeg2" /\ es["audio1"] = NoStream -> "audio1"
    [] e.type = "mpeg2" /\ es["audio1"] # NoStream /\ es["audio2"] = NoStream -> "audio2"
    [] e.type = "private" /\ e.tag \in TextSlots -> e.tag
    [] OTHER -> ""

\* Mode 2 leaves a stream out; video and the first audio are always taken.
Wanted(opt, x) == x \in Slots /\ (x \in {"video", "audio1"} \/ opt.mode[x] # 2)

WithStream(opt, es, e) ==
  LET x == SlotOf(es, e)
  IN  IF Wanted(opt, x) THEN [es EXCEPT ![x] = e] ELSE es

\* A later stream takes the slot of one before, if it is selected for the same.
Selection(opt, s) ==
  FoldLeft(LAMBDA es, e : WithStream(opt, es, e), [x \in Slots |-> NoStream], s.es)

\* Fault: what is held of an audio stream outlives a change of its PID.
SelectKeepingUnits(f, s) == [f EXCEPT !.es = Selection(f.opt, s)]

\* What is held of an audio stream is dropped when its PID changes.
Select(f, s) ==
  LET es         == Selection(f.opt, s)
      Changed(a) == es[a].pid # Pid(f, a)
  IN  [f EXCEPT !.es = es,
                !.pts  = [a \in AudioSlots |-> IF Changed(a) THEN NoTime ELSE @[a]],
                !.unit = [a \in AudioSlots |-> IF Changed(a) THEN << >> ELSE @[a]],
                !.dualMono = @ /\ ~Changed("audio1")]

\* Fault: an inserted stream is not listed.
ListedSelected(f) == {x \in Slots : Pid(f, x) # 0}

\* The streams the PMT sent lists: the selected ones and those inserted.
Listed(f) ==
  {x \in Slots : \/ Pid(f, x) # 0
                 \/ x # "video" /\ f.opt.mode[x] = 1
                 \/ x = "audio2" /\ f.opt.mode[x] = 3
                 \/ x = "audio2" /\ f.opt.mode[x] # 2 /\ f.dualMono}

\* An inserted stream has its own descriptors, and the copied one its source's type.
Entry(f, x) ==
  IF Pid(f, x) # 0 THEN <<f.es[x].type, f.es[x].tag>>
  ELSE <<f.es[IF x = "audio2" /\ f.opt.mode[x] = 3 THEN "audio1" ELSE x].type, "added">>

\* Fault: only the video stream is considered as carrier of the PCR.
PcrSlotVideo(f) == IF Pid(f, "video") # 0 /\ Pid(f, "video") = f.pcrPid THEN "video" ELSE "PCR"

\* The PCR is said to be on the stream that carries it, or on a PID of its own.
PcrSlot(f) ==
  LET on == {i \in DOMAIN SlotOrder : Pid(f, SlotOrder[i]) # 0 /\ Pid(f, SlotOrder[i]) = f.pcrPid}
  IN  IF on = {} THEN "PCR" ELSE SlotOrder[Max(on)]

Announce(f, s) ==
  LET content == [program |-> s.program, parts |-> s.parts, pcr |-> PcrSlot(f),
                  streams |-> [x \in Listed(f) |-> Entry(f, x)]]
      table   == Publish(f.last["PMT"], content)
  IN  [f EXCEPT !.last["PMT"] = table,
                !.counter["PMT"] = (@ + s.parts) % CounterMod,
                !.packets = Append(@, [pid |-> "PMT", kind |-> "table",
                                       counter |-> Successor(f.counter["PMT"]),
                                       count |-> s.parts, table |-> table])]

\* The PCR PID is taken over before the section is found not to fit.
AddPmt(f, s) ==
  LET g == [f EXCEPT !.pcrPid = s.pcrPid,
                     !.pcr = IF s.pcrPid = NullPid THEN NoTime ELSE @]
  IN  IF s.fits THEN Announce(Select(g, s), s) ELSE g
=============================================================================
