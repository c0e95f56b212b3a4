# Verification of tsreadex

tsreadex reads an MPEG transport stream from a file or a pipe, keeps one program of it on fixed
PIDs, fills in streams that are missing, and can convert or trace ARIB captions. This directory holds
TLA+ models of the program, the TLC configurations that check them on small instances, and proofs
that hold for every instance.

## The system

One thread does everything. Packets of 188 bytes go through a chain:

    read loop (main) -> CServiceFilter -> CID3Converter -> stdout
                                       -> CTraceB24Caption -> trace file

Each stage has `AddPacket` and leaves its result in `m_packets`, which `main` takes and clears after
every packet. The stages share no state; what couples them is the stream. There is no persistence.
What makes the program hard is its input: packets are lost, repeated or come without payload, tables
change at any time, clocks wrap and jump, a file grows while it is read, a pipe is slow or closed.

| Component | Source | State | Operations | What makes it correct |
|---|---|---|---|---|
| PSI reassembly | `util.cpp` `extract_psi`, `extract_pat` | `PSI`: counter, buffer of 1024 bytes, `version_number` | one call per packet, repeated by its callers until the packet is consumed | readers get whole sections as sent, in order, and get them all; the loop ends |
| Service filter, tables | `servicefilter.cpp` `AddPat`, `AddPmt` | PIDs of the selected streams, last tables sent | PAT packet, PMT packet | what is sent is announced; the PCR is where the PMT says; versions tell changes |
| Service filter, streams | `AccumulatePesPackets`, `AddAudioPesPackets`, `Transmux*` | packets of a PES per audio, counters sent | packet of a stream | whole PES only; counters without gaps |
| Service filter, insertion | `AddPcr...`, `Add64MsecAudioPesPacket`, captions in `AddPacket` | PCR, PTS of the silence, PCR of the last caption | packet with PCR | silence without gap or overlap, management packets when due |
| ID3 conversion | `id3conv.cpp` | first PMT, PIDs removed, PES per role, `m_id3Pid`, last PTS | PAT, PMT, PCR, caption packet | captions converted whole and completely, PID of its own, PTS do not go back |
| Read loop | `tsreadex.cpp` `main`, `ReadFileToBuffer`; `resync_ts` | buffer, `filePos`, mode, sizes | read, resynchronise, pass on, retry | every packet once and in order; it ends, not too early |
| Command line | `tsreadex.cpp` | options | parse | - |
| Caption trace | `traceb24.cpp` | first PMT, PID, languages and DRCS code points per role, PCR | PAT, PMT, PCR, caption packet; parsing of a data group | languages as listed last; a DRCS character has the code point the file gave it; positions tell readable text |
| AAC transmuxing | `aac.cpp` | workspace carried from PES to PES | mono to stereo, dual mono to two | frames whole, once and in order; back in step after losses; no read behind the buffer; a well-formed frame written |
| Huffman decoding | `huffman.cpp`, `maketree.cpp` | trees (generated) | make a tree, decode a codeword, split its index into values | a tree gives every codeword its index; values as the codebooks say |

`PROJECT.json` lists the components, how far each is modelled, the hazards found in each with the
properties that cover them, and the source lines of every definition.

## Modules

- `SectionDelivery` - what a reader of tables is promised: complete tables, never an older one.
- `PsiSection` - `extract_psi` with the loop of its callers, a multiplexer and a reception. A payload
  byte is its position in the stream, so the buffer tells where each of its bytes came from. It
  implements `SectionDelivery` (`OrderedDelivery`).
- `PsiSplicing` - the same with a history of whether the counters have told every loss so far.
- `Pts` - PCR and PTS modulo 2^33. `PtsClock` - what the filter decides with them: how many frames of
  silence, and when a management packet is due.
- `PesUnits` - `AccumulatePesPackets`: the packets held until the length of the PES is reached.
- `ServiceTables` - the PAT and PMT side of `CServiceFilter`: selection, tables sent, versions.
- `ServiceFilter` - `CServiceFilter::AddPacket` over the three above, with the sources of the stream
  and the reception as its environment.
- `CaptionManagement` - the same behaviour with a history of how long captions have been silent.
- `Id3Converter` - `CID3Converter::AddPacket`, with its own environment: PAT and PMT of two programs,
  captions of several packets, a reception that loses and repeats.
- `ReadLoop` - the read loop with its three modes, and the writer of its input.
- `DrcsWindow` - what the mapping of DRCS codes promises: the last new codes have a code point each.
  `DrcsRing` - the list with which the code does it.
- `TraceB24` - `CTraceB24Caption::AddPacket`, and the parsing of a data group item by item, so that it
  may fail after each. Its two rings implement `DrcsWindow` (`Windows`).
- `AribText` - `AddArib8AsUtf8` and `AnalizeArib8` as a function from a text to what is written and
  the list of positions. `TraceTexts` - the caption trace with a group of such texts.
- `AacStream` - the frames in the PES of an audio stream, what is carried over, and
  resynchronisation. `AacSyntax` - the course of `RawDataBlock` as far as the position goes.
  `AacRepack` - the bits of the frame that is written.
- `HuffmanTree` - `AppendCodeword`, the walk over the tree, and the values of an index. `AacInputs` -
  the stream with an input for each of the pure parts.
- `MCServiceFilter`, `MCCaptionManagement`, `MCId3Converter`, `MCReadLoop`, `MCTraceB24`, `MCAac` -
  instances for TLC.
- `PsiSectionProofs`, `ServiceFilterProofs`, `FilterActionProofs`, `Id3ConverterProofs`,
  `ReadLoopProofs`, `TraceB24Proofs`, `AacProofs` - the theorems. `IndexLemmas` - the highest
  and the lowest of some indices exist, induction up to a number, what a fold from the left
  comes to, and what sequences joined one behind the other come to: most of them need some of it.

State and actions follow the code. `ServiceFilter`, `Id3Converter` and `ReadLoop` keep the members of
the class, or the variables of the function, in one record (`filter`, `conv`, `loop`; the comment at
its head gives the members' names); `TraceB24` and `AacStream` have a variable for each. One packet
is one step. Since `AddPacket` returns before the next packet is read, a step contains everything it
does: a packet with a PCR brings the silence, the management packets and the packet itself in one
step, in the order of the code. The exceptions are finer. `PsiSection` takes each call of
`extract_psi` as a step, because the termination of the callers' loop is a property. `ReadLoop` takes
one iteration of the loop, with the writer and the clock between iterations. `TraceB24` takes an entry
of the list of languages, a code defined or a character written, because what matters is what a group
leaves behind when it fails between them. `AacStream` takes one frame of a PES, and the loss of a PES
as a step of the source.

Bytes are abstracted. A section is the record of what the code reads from it, a PES packet knows
which PES it belongs to and which part of it it is, a cell of the input is its position, a byte of
AAC the frame it belongs to and its place there. Where the code decides on contents that are not
modelled, the model chooses: whether a PES is dual mono or can be converted, which bytes a writer has
written, which size the buffer measurement gives, whether a block of AAC parses. Bytes of AAC that
are not one frame as it was sent, which a loss or a false header brings, may be taken for a frame
and converted, or not.

`AacSyntax`, `AacRepack`, `AribText` and `HuffmanTree` are pure: they define functions, and their
properties compare these with what they are for, over all inputs up to a bound. `AacInputs` and
`TraceTexts` draw such an input in the initial state (`input`, `text`), where an invariant speaks of
it; it is gone with the first step, and the runs go on as those of `AacStream` and `TraceB24`.

Definitions marked *Fault* are variants of the definition after them, as a plausible slip would leave
it. No specification uses them; putting one in the place of the original shows that a property notices.

## Runs

| Run | Shows | Bounds |
|---|---|---|
| `psi` | whole sections, in order, all of those not disturbed; the loop ends; nothing is spliced before the counters fail to tell a loss | 7 bytes, packets of up to 3, sections of 1 and 4 = the buffer, bursts of up to a whole round of the counter, empty and repeated packets |
| `filter_tables` | what goes out is announced; PCR; versions | 4 command lines, with silence, copy and dual mono, 2 PATs, 3 PMT sections, one of which does not fit, a clock modulo 5 |
| `filter_audio` | whole PES, contiguous counters | one audio PID that takes both roles, PES of 2 packets, held up to 4, bursts of 2, counter modulo 3, repeated and empty packets; a clock modulo 7 in steps of 2, so that silence of up to two frames comes in between |
| `filter_silence` | silence follows the clock, without gap or overlap | clock modulo 16, steps 1, 3 and 7, frame 2, jump limit 5; PES that are held whole and one longer than the limit |
| `captions` | management packets come when due, not before; counters of captions | clock modulo 32, limits 6 and 4, steps of 1, 5 and a jump of 13 |
| `id3` | conversion whole and complete, PIDs, PTS | two programs, five PMT sections, one caption PID with PES of 3 packets that changes role and program, bursts of 3, counter and clock modulo 4 |
| `read_loop` | every packet once and in order, ends, and in time | packets of 2 bytes, blocks of 4, 6 and 9, all modes, 11 bytes |
| `trace` | languages, code points and positions; the ring is a window | 2 code points, 3 codes (symmetric), 2 languages, one PMT PID with 3 sections, 2 entries or items per group; texts of up to 4 tokens, alone or in two bodies of 2 |
| `aac` | frames whole and in order, back in step; reads, bits written, trees, values | a header of 3 bytes, PES of up to 4, three kinds of frames, two of them with a byte 0xff inside; any element, each loop of it up to twice with anything in each round; channels of 20 to 27 bits, one or two blocks; codebooks of up to 4 words of up to 3 bits, in every order |
| `filter_silence_missing` | finding 1 | as `filter_silence`, dual mono |
| `read_loop_tail` | finding 2 | mode 1, preallocated file |
| `id3_source_removed` | finding 3 | two programs |

Why these bounds are enough for the interesting cases: counters wrap within one PES or section;
bursts reach the length at which counters cannot tell a loss; the buffer limit is reached exactly and
exceeded; sections begin and end in the same packet; clocks wrap several times and jump on both sides
of the limits; blocks are cut at each position of a packet; every role of a stream is taken, left and
taken again; more codes than code points are defined; groups fail at every place; frames are cut at
every byte, and frames end anywhere in a PES; the bits of a channel end at every bit of a byte. One
element of a frame of AAC is enough, because each begins with a check of the position, and two rounds
show the end of a loop in front of its beginning.

In `ServiceFilter` and `Id3Converter` a burst is shorter than a round of the counter (`MaxBurst`): a
burst of exactly 16 packets inside a PES is not seen by the code, and `AudioWhole` and `Id3Whole` do
not hold then. `PsiSection` has the longer bursts too, because there the CRC catches them. For the
same reason the two properties speak of PES whose packets all had payload (see the observations).

The six runs of `ServiceFilter`, `CaptionManagement`, `Id3Converter` and `TraceB24` that pass use a
VIEW. What it leaves out decides nothing in the steps: the tables sent and their versions for audio;
counters for tables, silence and captions; the packets or lines that are gone with the step. Where
only differences decide, it keeps these: of the counters and PES numbers in `id3` how far the packets
held are behind the source, of the versions in `filter_tables` nothing but the contents they tell
apart, of the times in `filter_tables` and `filter_audio` how long ago they were. The packets that
`Announced` and `PcrWhereAnnounced` speak of are kept with their PIDs.
Properties of packets that a view leaves out are action properties, which TLC checks on every step
and not only on new states. An invariant checked under a view speaks of what the view keeps; the
conjuncts of `TypeOK` in `filter_silence` that speak of counters hold by the shape of the arithmetic,
and are proved (`FilterTypes`).

In `trace` the three codes are symmetric: no property names a code. `Windows` is a temporal formula,
but one of safety only, for which symmetry is sound.

`CHECK_DEADLOCK FALSE` stands in the two runs of `ReadLoop`, where the program ends. In `ReadLoop` the
preallocated file does not grow in the checked instances (`Grows` FALSE): when it grows between the
read of its last block and the next, the code passes on cells that were not written yet, which `-m 1`
accepts by design and `InOrder` would report.

### Fairness

- `PsiSection`: weak fairness of `ExtractPsi` only. The callers' loop runs without interruption, so a
  call that is due happens; nothing is assumed of the stream.
- `ReadLoop`: weak fairness of `Iterate` (the program runs), of `Tick` (time passes) and of `Close` (a
  writer ends some day; without it a pipe that stays open keeps the program reading, as intended).
  Writing is not fair: a writer may stop at any point.
- `AacStream`: weak fairness of `Parse`, the loop over the frames of a PES. Nothing is assumed of the
  stream: that PES keep coming and that no more are lost are premises of `BackInStep` itself.

The other modules state safety only and need none.

## Findings

1. `filter_silence_missing`: `m_isAudio1DualMono` survives a PAT without the program; silence for the
   second audio is then never inserted until the first audio comes back (`servicefilter.cpp:133`).
2. `read_loop_tail`: in mode 1 the packets in front of the unwritten part are dropped if they share
   its block (`tsreadex.cpp:405`), which mode 0 does not do.
3. `id3_source_removed`: when another program becomes the first one, the metadata keep the PID of the
   captions of the former, which are no longer removed (`id3conv.cpp:196`).

Observations without a property that fails:

- The descriptor that announces the metadata is a static local of `AddPmt`: it keeps the service ID of
  the first PMT (`id3conv.cpp:201`).
- Silence on 0x0111 that pauses for less than 10 s, because the first audio is copied or split there,
  goes on where it stopped, and overlaps the audio sent meanwhile (`servicefilter.cpp:466-470`, `727`).
- A packet without payload carries the counter of the packet before it. When that one was lost, the
  counter is the expected one, the empty packet is taken in its place, and the next one follows: a
  PES is put together around a hole (`servicefilter.cpp:816`, `id3conv.cpp:93`), as is the buffer of
  a section (`util.cpp:54`), where the CRC catches it.
- In mode 0 the right half of a dual mono goes out on 0x0111 as soon as it is there, and the PMT lists
  that PID from the next PMT on (`servicefilter.cpp:969`). `Announced` excepts exactly this.
- At the present end of a preallocated file that becomes longer, what was read of the part not yet
  written is passed on as it was (`tsreadex.cpp:374`). `InOrder` is checked and proved without growth.
- A section of length 0 in `section_data` does not advance `k`, while `i`, which indexes `sectCb` and
  `sectEnd`, goes on; the 64 sections per group that these have room for are not a limit of the loop
  (`aac.cpp:141-166`). `AacSyntax` keeps bit positions and no arrays, and says nothing of it.
- A data group that fails half-way leaves the codes it defined mapped, although its line says nothing
  of them: a later character may be written with a code point that the file never explained.
  `TextAnnounced` and `LanguagesAsSent` except exactly this (`traceb24.cpp:201`).

## Proofs

Checked by TLAPS, for every value of the constants that the named assumptions of the modules allow.
Each follows the same path: an inductive invariant, a lemma for each operator that says what it
keeps, a step for each action of `Next`.

`PsiSectionProofs`, for every counter range of at least 2, buffer size, packet size, set of section
sizes and bound on bursts:

- `Typing`: `Spec => []TypeOK`. With it: the buffer never exceeds `Cap`, and `length` never exceeds
  what was collected. `TypeOK` is inductive; the work is in `CollectType` and `PlacedStay`.
- `WholeSections`: `Spec => []DeliveredWhole`. It is not inductive: a call may hand over what an
  earlier call found. The invariant is `WholeInv`, which adds `Vouched`: a `length` that is not 0 is
  the size of a section whose bytes are the head of the buffer. `CollectWhole` shows that collecting
  keeps it, `HeadIsSection` that the bytes handed over are then the section. No assumption on losses
  is needed; the CRC is assumed perfect (`Holds`).
- `NoSplicing`: `PSSpec => []NoSplice`. The invariant, `SyncInv`, relates the counter that the reader
  expects to the number of packets it missed: as long as this is less than a round, a packet that
  carries the expected counter continues exactly where the buffer ends. No bound on bursts is
  assumed: the property is told of what comes before the first one that the counters cannot tell.

- `UndisturbedUsed`: `Spec => []Complete`. The invariant is `Layout`, the sections lie one behind the
  other and only the last may be open, and `GatherInv`: of a section that is not disturbed, the buffer
  holds exactly what was sent, and its next packet is the one the reader waits for, or it was used.
- `CalledTwiceAtMost`: of the loop round `extract_psi`, that a packet for which it goes on has finished a
  section and no longer follows the counter, so that it does not go on again.
- `DeliveredInOrder`: `Spec => OrderedDelivery`, the refinement of `SectionDelivery`. A step maps to the
  completion of sections, to the reader's move to a later one, or to a stutter. That it never moves
  back is `OrderInv`: what is collected was sent after what was used, and what the packet in hand
  starts, after both. `CurrentIs` and `SentFirst` turn places of bytes into numbers of sections.

`ServiceFilterProofs`, for every set of command lines, PATs, PMT sections, streams, lengths of PES and
sizes of the clock:

- `FilterTypes`, `SentIsAnnounced`, `PcrIsAnnounced`: `TypeOK`, `Announced` and `PcrWhereAnnounced`. The
  first two speak of what goes out with this packet, which no invariant could follow from; `Inv` says
  why it does. `Told`: every stream that is selected is in the PMT sent last, also when the section
  used since did not fit, and without a PMT nothing is selected. `PcrTold`: while the section in force
  fits, the PMT says where the PCR is, unless the program was lost since. `Distinct`: no two streams
  selected share a PID. `Selected`: without a program in the PAT nothing is selected. `Partial`: what
  is held of a PES is of the PID of its role, and not yet complete.
- `WholeAudio`: `AudioWhole`, if `MaxBurst < CounterMod`. The invariant `Chained` relates what is held
  for a role to the source of its PID: it is the packets of one PES from its first one on, and the
  counter of the source is ahead by as many packets as were lost (`Ahead`), so that a packet with the
  expected counter is the next one of that PES.
- `SelectionApart`: of the sections it is assumed that their streams have a PID each
  (`SectionAssumption`). A stream is selected for one slot only, so that after each stream of the list
  no two slots have one PID; that is what `Distinct` rests on. The selection is a fold over the list:
  `FoldThere` gives the function that the library's definition chooses, and `AlongStretches` takes
  what holds from each stream to the next.

`FilterActionProofs`, on the same assumptions, the action properties of the filter:

- `CountersGoOn`, `VersionsAreTold`, `TextGoesOn`: `CountersContiguous`, `VersionsTell`, `TextContiguous`. They
  speak of all packets a step sends, in their order. `Good` says them of what is sent until some point
  within `AddPacket`; each handler is shown to keep it (`GoodAudio`, `GoodTable`, `GoodText`,
  `GoodPassed`) by what it appends on its PID and leaves alone elsewhere (`Adds`), and a step is the
  chain of its handlers. `Inv` is needed for the types, and `Versions` for the range of versions.
- `SilenceFollows`: `SilenceGapless`. The number of frames is a division; `Ends` tells where the last of
  them ends, and `SilenceFills` that they cover the time from where silence stood to the target.
- `SilenceCatchesUp`: `SilenceKeepsUp`, with `Unasked` as a further invariant: without a program there is no
  PCR PID, so that a PCR always reaches the silence.
- `ManagementIsSpaced`, `ManagementIsDue`: `ManagementSpacing`, `ManagementDue`. The invariant `QuietInv`
  relates the history to the member of the code: the filter's time stamp is behind the clock by the
  silence itself, plus what the insertion has advanced it by (`SilentFor`). It needs `StepAssumption`, that
  a clock either goes on by less than the limit or jumps clearly; with a step in between the code
  cannot tell a silence from a jump. `Untimed` rules out that a repeated packet turns back the clock.

`Id3ConverterProofs`, for every set of tables whose streams have a PID each:

- `ConverterTypes`, `PmtOnItsPid`, `MetadataOwnPid`, `PtsKeepUp`: `TypeOK`, `PmtOfPid`, `Id3PidOwn`,
  `PtsMonotonous`. The invariant is `Consistent` and `SourceOK`. `SectionHeld`: a section held is one
  of the PMT PID in force. `Agreed`: the roles are among the PIDs removed, the PID of the metadata is
  the one of the PMT sent and none of its streams. `shown = conv.last`: the PTS compared with is the
  one sent.
- `WholePes`: `Id3Whole`, if `MaxBurst < CounterMod`, by the same relation as `WholeAudio`.
- `PesAreConverted`: `Id3Complete`. `Entire` says of a PES in progress that came undisturbed that a
  role has its PID and holds all its packets so far, in number as many as the index of the last one
  and with its counter. A step with a PMT makes up to two calls; a role whose PID is the same in every
  PMT sent is left alone by each of them (`RoleKept`), also by one whose section does not fit.

`ReadLoopProofs`, for every unit, block size, input and timing:

- `ReadLoopTypes`: `TypeOK`. `Types` adds what it rests on: a block has room for one more byte
  whenever the loop reads, and the position in the file goes back by no more than was read.
- `NothingLeft` and `PacketsInOrder`: `Complete`, and `InOrder` if the preallocated file does not grow.
  `Order` says where the buffer stands: what was passed on and what is in the buffer are one stretch
  of the input, and the packets passed on are its packets (`Passed`, `Placed`). The arithmetic of
  blocks and offsets is in the lemmas on division.
- `LoopIsTimely`: `Timely`, by the types and `PipeOnly`: mode 2 is the mode of a pipe, the one source
  that is given up without the timeout. In the other modes nothing that `ReadBlock` does before
  `Retried` completes the loop (`ReadNotYet`), and `Retried` does only when the time is over. From then
  on a read only adds to the block in hand (`ReadKeeps`), and processing a block leaves the loop unless
  something was written (`ProcessLeaves`).

`TraceB24Proofs`, for every size of the ring, set of codes and tables:

- `TraceTypes`: `TypeOK`. `Phases` says what is known of a PES in each phase of its parsing.
- `LanguagesKept`: `LanguagesAsSent`. While the list is read, the languages known are those announced
  once the rest of the list is laid over them (`Overlaid`).
- `TextKept`: `TextAnnounced`. Each code in a ring was told in the line of its code point or was defined
  in a group that failed (`RingsTold`, `LineTold`); defining a code gives its code point to no other.
- `WindowsKept`: `Spec => Windows`: each of the two rings, unrolled from the element after the last one
  on, refines `DrcsWindow!WSpec`. The core is `WindowMoves`: what `Mapped` does to the ring is what
  `Pushed` does to the window.
- `PositionsKept`: `PositionsTold`, for texts of any length and any tokens that are rewritten as one code
  at least (`TextAssumption`). `Locating` says that the positions tell what is written so far and that
  none is behind it, `Going` that something was written since the last one, so that the next
  position is another. Each token keeps `Going` (`AnalizeGoes`); `Closing`, that the number of positions
  is odd, is restored by the end of a body. Both folds, over the tokens and over the bodies, go by
  `FoldThere` and `KeptAlong`.

`AacProofs`, for every set of streams of frames, of any length and with false headers anywhere in
them, every length of the header and every cut into PES:

- `TypesHold`: `TypeOK`. The core is `CarriedIs`: however many whole frames `SkipPayload` steps over, the
  bound on their number suffices for it to end where no whole frame is left.
- `FramesStayInStep`: `StaysInStep`. The invariant `Told` says of the loop, for a PES that came in step,
  that the workspace holds what was sent behind some end of a frame, and that the frames that end up
  to there are those converted so far (`Done`). From there the code finds the frames where they are
  (`FrontIs`, `FrontFrame`), skips just those that end (`CarriedInStep`), and so what it carries over is
  what the source has begun (`UnfinishedIs`). `BegunOK` adds that the cells begun are marked when a PES
  was lost, so that after a loss nothing is in step by chance. False headers do no harm here because
  in step no byte inside a frame is ever looked at as its first.
- `FramesAreUsedUp`: a step after which the loop over the frames goes on takes a header's length at least
  from the workspace.
- `BlocksRepacked`: `Repacked`, for any number of blocks whose elements are of any length and begin at
  any bit; assumed is that an element has an id, a tag and a global gain (`RepackAssumption`), without
  which `RawDataBlock` does not accept it. What is said of a byte is said of its eight bits: two bytes
  that share one are put together where both have zeros (`SharedByte`), the rest of a channel and the
  end element fit into one byte or take two (`RestIs`), and the two channels share a byte or not
  (`TwiceIs`); the blocks follow each other by `FlattenJoins`. The length in the header is the length
  of the frame as long as 13 bits can say it (`FieldsNumber`): the code does not check that.
- `CodebooksDecode`: `TreeDecodes`, for codebooks of any size and codewords of any length, in any order.
  `PrefixFree` asks that none begins another and that not more is begun than there are numbers below
  500 for the nodes; a codeword that ends inside an earlier one is lost without an error, which the
  tables do not come to. The invariant of `AppendCodeword` is `Shape`: a node stands for what begins a
  codeword, no two for the same, and a slot leads to the node or the leaf for one bit more; `There`
  says that the slots of a codeword are set as far as it has been read (`GoingOn` for a bit,
  `CodewordBuilt` and `BookBuilt` for the folds). From it `DecodeBits` goes down the codeword
  (`WordDecodes`), and a slot that is not set is room for a further codeword and the other way round
  (`FullWhenComplete`, `CompleteWhenFull`).

- `ParsingStaysInside`: `ReadsInside`, for any number of elements in a frame and of rounds of each loop.
  `Within(A, in, out)` says of a part of the syntax: begun at most `in` bits behind the end, every
  course of it reads no further than 128 bits behind it and ends at most `out` bits behind. It is
  composed as the syntax is: one part after another (`Onwards`), one or another (`Either`), a loop
  that ends no further behind than it begins (`Repeated`, by the lemma on joined sequences). The
  farthest a block ends behind the end is that of a data stream element, 4111 bits (`Farthest`); the
  next block begins with a check. That `ReadsBehind` is the position such a course reaches is `PositionsGo`.
- `SpectraDecode`: `SpectrumValues`, by the digits of an index to the base of its codebook.

Only model-checked: liveness (`Consumed`, `Termination`, `BackInStep`), which this prover cannot
reach. `CalledTwiceAtMost` and `FramesAreUsedUp` prove what decides whether two of the loops end, without
the fairness. Every safety property that a run checks and that holds is proved.

## Not modelled

- `programNumberOrIndex` 0, where the filter passes everything on.
- A PMT PID that also carries the PCR or a stream; two roles on one PID; in the ID3 conversion, a PCR
  on the PID of captions.
- The transport error indicator, scrambling, start codes, PES of length 0 or without PTS.
- A section length below 9 (the code returns without effect), identical sections sent again.
- The CRC as a computation; the tables of characters, and the text that the trace writes for them;
  the tables of the codebooks, whose lines `maketree.cpp` leaves out: of the trees in `huffman.cpp`
  `AacSyntax` has only how long the longest codeword of each is, read off the tables and not derived.
- Whether the bits of a block of AAC parse: a choice of the source, fixed per frame. In `AacSyntax` the
  bits do not decide how often a loop is run or what a step is worth: every number of rounds is taken,
  and each step goes as far as it can.
- Collecting of PES in the trace, which is the code of the ID3 conversion once more: in `TraceB24` a
  packet begins, continues, breaks or completes a PES as it likes.
- The PCR as it is written in lines of the trace; only whether it is known.
- The rate limit (`-l`), which only sleeps, the Windows variant of reading, the measurement that
  chooses the block size (any of `BufSizes` may be chosen), parsing of the command line.
- Payload bytes that look like sync bytes (0x47): in `ReadLoop` only the first byte of a packet does.
- Contents of metadata, descriptors and `-d +4` in the ID3 conversion.

## Plan

Done, in this order: PSI reassembly; tables, streams and insertion of the service filter; the read
loop; the ID3 conversion; the caption trace; AAC and Huffman; the proofs above. What is left:

1. Filter and converter composed, with the program number in the descriptors and the PTS of silence
   against copied audio, so that the first two observations become properties.
2. Sizes and indexes of the arrays of `aac.cpp` in `AacSyntax`.
