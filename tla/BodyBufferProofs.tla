-------------------------- MODULE BodyBufferProofs --------------------------
(***************************************************************************)
(* Theorems about BodyBuffer, for any buffers, bytes, threshold and bounds.*)
(* Their heart is that a name is never given again while somebody may      *)
(* still use it: names of an earlier second are told apart by the second,  *)
(* names of this second are the last `made' values of the counter.         *)
(***************************************************************************)
EXTENDS BodyBuffer, SequenceTheorems, TLAPS

-----------------------------------------------------------------------------
(* Type correctness                                                        *)

LEMMA FilesAreTyped ==
  ASSUME TypeOK
  PROVE  /\ \A p : Remove(p) \in [FileName -> Seq(Byte) \cup {NoFile}]
         /\ \A p : \A d \in Seq(Byte) :
              [file EXCEPT ![p] = d] \in [FileName -> Seq(Byte) \cup {NoFile}]
  BY DEF TypeOK, Remove

LEMMA NamesAreTyped ==
  ASSUME TypeOK
  PROVE  /\ GenerateTempFileName \in FileName
         /\ CountName => counter' \in 0 .. COUNTER_MAX - 1 /\ made' \in 0 .. MaxNames
<1>1. GenerateTempFileName \in FileName
  BY LimitsAssumption DEF TypeOK, GenerateTempFileName, FileName
<1>2. CountName => counter' \in 0 .. COUNTER_MAX - 1 /\ made' \in 0 .. MaxNames
  BY LimitsAssumption, NamesAssumption DEF TypeOK, CountName, NextCounter
<1> QED
  BY <1>1, <1>2

LEMMA ContentIsTyped ==
  ASSUME TypeOK, NEW b \in Buffers
  PROVE  GetAllContent(b) \in Seq(Byte)
<1>1. buffer[b] \in Buffer
  BY DEF TypeOK
<1>2. \A n \in FileName : file[n] \in Seq(Byte) \cup {NoFile}
  BY DEF TypeOK
<1> QED
  BY <1>1, <1>2 DEF GetAllContent, Exists, Buffer

LEMMA DataIsTyped ==
  \A d \in Data : d \in Seq(Byte) /\ Len(d) \in Nat
<1> SUFFICES ASSUME NEW d \in Data PROVE d \in Seq(Byte) /\ Len(d) \in Nat
  OBVIOUS
<1>1. PICK n \in 1 .. MaxLength : d \in [1 .. n -> Byte]
  BY DEF Data
<1>2. n \in Nat
  BY LimitsAssumption
<1>3. d \in Seq(Byte)
  BY <1>1, <1>2, IsASeq
<1> QED
  BY <1>3

\* What a member function makes of a buffer is a buffer.
LEMMA UpdatesAreBuffers ==
  ASSUME NEW r \in Buffer, NEW d \in Seq(Byte)
  PROVE  /\ KeptInMemory(r, d) \in Buffer
         /\ GenerateTempFileName \in FileName => MovedToFile(r, d) \in Buffer
         /\ AddedToFile(r, d) \in Buffer
         /\ \A p \in FileName \cup {NoFile} : FailedOn(r, p) \in Buffer
         /\ Cleared(r) \in Buffer /\ Streamed(r) \in Buffer /\ Sealed(r) \in Buffer
<1>1. /\ r.mem \o d \in Seq(Byte) /\ r.written \o d \in Seq(Byte)
      /\ Len(r.mem \o d) \in Nat /\ r.total + Len(d) \in Nat /\ <<>> \in Seq(Byte)
  BY DEF Buffer
<1>2. KeptInMemory(r, d) \in Buffer
  BY <1>1 DEF KeptInMemory, Buffer
<1>3. GenerateTempFileName \in FileName => MovedToFile(r, d) \in Buffer
  BY <1>1 DEF MovedToFile, SpilledBytes, Buffer
<1>4. AddedToFile(r, d) \in Buffer
  BY <1>1 DEF AddedToFile, Buffer
<1>5. \A p \in FileName \cup {NoFile} : FailedOn(r, p) \in Buffer
  BY DEF FailedOn, Buffer
<1>6. Cleared(r) \in Buffer
  BY <1>1 DEF Cleared, NoBuffer, Buffer
<1>7. Sealed(r) \in Buffer
  BY DEF Sealed, Buffer
<1>8. Streamed(r) \in Buffer
  <2>1. (r.streaming \/ r.usingFile) \in BOOLEAN
    BY DEF Buffer
  <2>2. \A t \in BOOLEAN, u \in {"unread", "whole", "nothing"} :
          [r EXCEPT !.sealed = TRUE, !.streaming = t, !.streamed = u] \in Buffer
    BY DEF Buffer
  <2>3. (IF r.usingFile /\ r.streaming THEN "nothing" ELSE "whole")
          \in {"unread", "whole", "nothing"}
    OBVIOUS
  <2> QED
    BY <2>1, <2>2, <2>3 DEF Streamed
<1> QED
  BY <1>2, <1>3, <1>4, <1>5, <1>6, <1>7, <1>8

LEMMA EmptyBuffers == NoBuffer \in Buffer /\ NoScript \in Script
<1>1. <<>> \in Seq(Byte)
  OBVIOUS
<1> QED
  BY <1>1 DEF NoBuffer, Buffer, NoScript, Script

LEMMA WritesAreTyped ==
  ASSUME TypeOK, NEW b \in Buffers, NEW d \in Data,
         WriteToBuffer(b, d) \/ WriteFails(b, d)
  PROVE  TypeOK'
<1>0. /\ buffer[b] \in Buffer /\ d \in Seq(Byte)
      /\ buffer[b].mem \in Seq(Byte)
      /\ SpilledBytes(buffer[b], d) \in Seq(Byte)
      /\ buffer[b].path \in FileName \cup {NoFile}
      /\ GenerateTempFileName \in FileName
  BY DataIsTyped, NamesAreTyped DEF TypeOK, Buffer, SpilledBytes
<1>1. CASE WriteToMemory(b, d)
  BY <1>0, <1>1, UpdatesAreBuffers DEF TypeOK, WriteToMemory
<1>2. CASE Spill(b, d)
  <2>1. MovedToFile(buffer[b], d) \in Buffer
    BY <1>0, UpdatesAreBuffers
  <2>2. file' \in [FileName -> Seq(Byte) \cup {NoFile}]
    BY <1>0, <1>2, FilesAreTyped DEF Spill
  <2> QED
    BY <1>2, <2>1, <2>2, NamesAreTyped DEF TypeOK, Spill
<1>3. CASE WriteToFile(b, d)
  <2>1. AddedToFile(buffer[b], d) \in Buffer
    BY <1>0, UpdatesAreBuffers
  <2>2. file' \in [FileName -> Seq(Byte) \cup {NoFile}]
    <3>1. CASE Exists(buffer[b].path)
      <4>1. file[buffer[b].path] \o d \in Seq(Byte)
        BY <1>0, <3>1 DEF TypeOK, Exists
      <4> QED
        BY <1>3, <3>1, <4>1, FilesAreTyped DEF WriteToFile
    <3>2. CASE ~Exists(buffer[b].path)
      BY <1>3, <3>2 DEF TypeOK, WriteToFile
    <3> QED
      BY <3>1, <3>2
  <2> QED
    BY <1>3, <2>1, <2>2 DEF TypeOK, WriteToFile
<1>4. CASE WriteFails(b, d)
  <2>1. \A p \in FileName \cup {NoFile} : FailedOn(buffer[b], p) \in Buffer
    BY <1>0, UpdatesAreBuffers
  <2>2. CASE OpenFails(b)
    BY <1>0, <1>4, <2>1, <2>2, NamesAreTyped DEF TypeOK, OpenFails, WriteFails
  <2>3. CASE SpillFails(b, d)
    <3>1. \A n \in 0 .. Len(SpilledBytes(buffer[b], d)) :
            SubSeq(SpilledBytes(buffer[b], d), 1, n) \in Seq(Byte)
      BY <1>0, SubSeqProperties
    <3>2. file' \in [FileName -> Seq(Byte) \cup {NoFile}]
      BY <2>3, <3>1, FilesAreTyped DEF SpillFails
    <3> QED
      BY <1>0, <1>4, <2>1, <2>3, <3>2, NamesAreTyped DEF TypeOK, SpillFails, WriteFails
  <2>4. CASE AppendFails(b)
    BY <1>0, <1>4, <2>1, <2>4 DEF TypeOK, AppendFails, WriteFails
  <2> QED
    BY <1>4, <2>2, <2>3, <2>4 DEF WriteFails
<1> QED
  BY <1>1, <1>2, <1>3, <1>4 DEF WriteToBuffer

\* The types are preserved by every action.
THEOREM TypeCorrect == Spec => []TypeOK
<1>1. Init => TypeOK
  <2> SUFFICES ASSUME Init PROVE TypeOK
    OBVIOUS
  <2>1. 0 \in 0 .. MaxTime /\ 0 \in 0 .. COUNTER_MAX - 1 /\ 0 \in 0 .. MaxNames
    BY LimitsAssumption, NamesAssumption
  <2> QED
    BY <2>1, EmptyBuffers DEF Init, TypeOK
<1>2. TypeOK /\ [Next]_vars => TypeOK'
  <2> SUFFICES ASSUME TypeOK, [Next]_vars PROVE TypeOK'
    OBVIOUS
  <2>0. \A b \in Buffers :
          /\ buffer[b] \in Buffer
          /\ Cleared(buffer[b]) \in Buffer /\ Streamed(buffer[b]) \in Buffer
          /\ Sealed(buffer[b]) \in Buffer
    <3>1. <<>> \in Seq(Byte)
      OBVIOUS
    <3> QED
      BY <3>1, UpdatesAreBuffers DEF TypeOK
  <2>1. ASSUME NEW b \in Buffers, Create(b) PROVE TypeOK'
    <3>1. Cleared(NoBuffer) \in Buffer
      <4>1. <<>> \in Seq(Byte)
        OBVIOUS
      <4> QED
        BY <4>1, EmptyBuffers, UpdatesAreBuffers
    <3> QED
      BY <2>1, <3>1 DEF Create, TypeOK
  <2>2. ASSUME NEW b \in Buffers, ClearBuffer(b) PROVE TypeOK'
    BY <2>0, <2>2, FilesAreTyped DEF ClearBuffer, TypeOK
  <2>3. ASSUME NEW b \in Buffers, Destroy(b) PROVE TypeOK'
    BY <2>3, EmptyBuffers, FilesAreTyped DEF Destroy, TypeOK
  <2>4. ASSUME NEW b \in Buffers, GetStream(b) PROVE TypeOK'
    BY <2>0, <2>4 DEF GetStream, TypeOK
  <2>5. ASSUME NEW b \in Buffers, ForkScript(b) PROVE TypeOK'
    <3>1. [path |-> buffer[b].path, body |-> GetAllContent(b)] \in Script
      BY <2>0, ContentIsTyped DEF Script, Buffer
    <3>2. script' \in [Buffers -> Script]
      BY <2>5, <3>1, EmptyBuffers DEF ForkScript, TypeOK
    <3> QED
      BY <2>0, <2>5, <3>2 DEF ForkScript, TypeOK
  <2>6. ASSUME NEW b \in Buffers, ScriptOpens(b) PROVE TypeOK'
    BY <2>6, EmptyBuffers DEF ScriptOpens, TypeOK
  <2>7. ASSUME NameUpload PROVE TypeOK'
    BY <2>7, NamesAreTyped DEF NameUpload, TypeOK
  <2>8. ASSUME Tick PROVE TypeOK'
    <3>1. now' \in 0 .. MaxTime /\ made' \in 0 .. MaxNames
      BY <2>8, LimitsAssumption, NamesAssumption DEF Tick, TypeOK
    <3> QED
      BY <2>8, <3>1 DEF Tick, TypeOK
  <2>9. ASSUME Crash PROVE TypeOK'
    <3>1. counter' \in 0 .. COUNTER_MAX - 1 /\ made' \in 0 .. MaxNames
      BY <2>9, LimitsAssumption, NamesAssumption DEF Crash
    <3>2. left' \in SUBSET FileName
      BY <2>9 DEF Crash
    <3> QED
      BY <2>9, <3>1, <3>2, EmptyBuffers DEF Crash, TypeOK
  <2>10. CASE UNCHANGED vars
    BY <2>10 DEF TypeOK, vars
  <2> QED
    BY <2>1, <2>2, <2>3, <2>4, <2>5, <2>6, <2>7, <2>8, <2>9, <2>10, WritesAreTyped DEF Next
<1> QED
  BY <1>1, <1>2, PTL DEF Spec

-----------------------------------------------------------------------------
(* Names                                                                   *)

\* The next name differs from every name that may still be in use.
LEMMA NewNameIsNew ==
  ASSUME TypeOK, made < MaxNames
  PROVE  \A n \in FileName : Recent(n) => n # GenerateTempFileName
<1> SUFFICES ASSUME NEW n \in FileName, Recent(n), n = GenerateTempFileName PROVE FALSE
  OBVIOUS
<1>1. n[1] = now /\ n[2] = counter
  BY DEF GenerateTempFileName
<1>2. now \in Nat /\ counter \in Nat /\ made \in Nat
  BY LimitsAssumption, NamesAssumption DEF TypeOK
<1> QED
  BY <1>1, <1>2, LimitsAssumption, NamesAssumption DEF Recent

\* Names do not become recent by being forgotten too early.
LEMMA RecentStays ==
  ASSUME TypeOK,
         \/ now' = now /\ (CountName \/ (counter' = counter /\ made' = made))
         \/ Tick
  PROVE  \A n \in FileName : Recent(n) => Recent(n)'
<1> SUFFICES ASSUME NEW n \in FileName, Recent(n) PROVE Recent(n)'
  OBVIOUS
<1>1. /\ n[1] \in Nat /\ n[2] \in 0 .. COUNTER_MAX - 1
      /\ now \in Nat /\ counter \in 0 .. COUNTER_MAX - 1 /\ made \in Nat
  BY LimitsAssumption, NamesAssumption DEF TypeOK, FileName
<1>2. CASE now' = now /\ CountName
  BY <1>1, <1>2, LimitsAssumption DEF Recent, CountName, NextCounter
<1>3. CASE now' = now /\ counter' = counter /\ made' = made
  BY <1>3 DEF Recent
<1>4. CASE Tick
  BY <1>1, <1>4 DEF Recent, Tick
<1> QED
  BY <1>2, <1>3, <1>4

LEMMA NewNameIsRecent ==
  ASSUME TypeOK, now' = now, CountName
  PROVE  \A n : n = GenerateTempFileName => Recent(n)'
<1> SUFFICES ASSUME NEW n, n = GenerateTempFileName PROVE Recent(n)'
  OBVIOUS
<1>1. n[1] = now /\ n[2] = counter
  BY DEF GenerateTempFileName
<1>2. now \in Nat /\ counter \in 0 .. COUNTER_MAX - 1 /\ made \in Nat
  BY LimitsAssumption, NamesAssumption DEF TypeOK
<1> QED
  BY <1>1, <1>2, LimitsAssumption DEF Recent, CountName, NextCounter

-----------------------------------------------------------------------------
(* Steps that change one buffer and one file                               *)

\* Only the file p changes, and names in use stay recent.
OnlyFile(p) ==
  /\ \A n \in FileName : n # p => file'[n] = file[n]
  /\ \A n \in FileName : Recent(n) => Recent(n)'

\* A buffer that is left alone and whose file is not p keeps its bytes.
LEMMA OthersKept ==
  ASSUME TypeOK, IInv, NEW p, OnlyFile(p), NEW c \in Buffers,
         buffer'[c] = buffer[c], buffer[c].path # p \/ buffer[c].path = NoFile
  PROVE  BufferInv(buffer[c])'
<1>1. buffer[c] \in Buffer /\ BufferInv(buffer[c])
  BY DEF TypeOK, IInv
<1>2. buffer[c].path \in FileName \cup {NoFile}
  BY <1>1 DEF Buffer
<1>3. CASE buffer[c].path = NoFile
  BY <1>1, <1>3 DEF BufferInv
<1>4. CASE buffer[c].path # NoFile
  <2>1. buffer[c].path \in FileName /\ buffer[c].path # p
    BY <1>2, <1>4
  <2>2. file'[buffer[c].path] = file[buffer[c].path]
    BY <2>1 DEF OnlyFile
  <2>3. Recent(buffer[c].path)
    BY <1>1, <1>4 DEF BufferInv
  <2>4. \A n \in FileName : Recent(n) => Recent(n)'
    BY DEF OnlyFile
  <2> QED
    BY <1>1, <1>4, <2>1, <2>2, <2>3, <2>4 DEF BufferInv, Recent
<1> QED
  BY <1>3, <1>4

\* A script that is left alone keeps its file, unless the file goes; its
\* buffer may give the file up, and nobody else may take it.
LEMMA ScriptsKept ==
  ASSUME TypeOK, IInv, NEW p, OnlyFile(p), NEW c \in Buffers,
         script'[c] = script[c],
         script[c].path # p \/ file'[p] \in {file[p], NoFile},
         \A d \in Buffers :
           buffer'[d].path = script[c].path /\ script[c].path # NoFile =>
             /\ buffer[d].path = script[c].path
             /\ buffer[d].sealed => buffer'[d].sealed
  PROVE  ScriptInv(c)'
<1>1. script[c] \in Script /\ ScriptInv(c)
  BY DEF TypeOK, IInv
<1> SUFFICES ASSUME script[c].path # NoFile PROVE ScriptInv(c)'
  BY DEF ScriptInv
<1>2. script[c].path \in FileName
  BY <1>1 DEF Script
<1>3. file'[script[c].path] \in {script[c].body, NoFile}
  BY <1>1, <1>2 DEF ScriptInv, OnlyFile
<1>4. Recent(script[c].path) /\ (\A n \in FileName : Recent(n) => Recent(n)')
  BY <1>1 DEF ScriptInv, OnlyFile
<1>5. \A d \in Buffers :
        buffer'[d].path = script[c].path => d = c /\ buffer'[c].sealed
  BY <1>1 DEF ScriptInv
<1> QED
  BY <1>2, <1>3, <1>4, <1>5 DEF ScriptInv, Recent

\* Buffer b becomes r, and with it its file p: the old one, none, or a new one.
LEMMA OneBufferStep ==
  ASSUME TypeOK, IInv, NEW b \in Buffers, NEW r, NEW p,
         buffer' = [buffer EXCEPT ![b] = r], OnlyFile(p), script' = script,
         \A c \in Buffers \ {b} : buffer[c].path # p \/ p = NoFile,
         r.path \in {buffer[b].path, p, NoFile},
         \A c \in Buffers :
           script[c].path # NoFile =>
             /\ script[c].path # p \/ file'[p] \in {file[p], NoFile}
             /\ r.path = script[c].path =>
                  buffer[b].path = script[c].path /\ (buffer[b].sealed => r.sealed),
         BufferInv(buffer[b])', NoFileOutlivesItsBuffer'
  PROVE  IInv'
<1>1. buffer'[b] = r /\ \A c \in Buffers \ {b} : buffer'[c] = buffer[c]
  BY DEF TypeOK
<1>2. ASSUME NEW c \in Buffers PROVE BufferInv(buffer[c])'
  <2>1. CASE c = b
    BY <2>1
  <2>2. CASE c # b
    BY <1>1, <2>2, OthersKept
  <2> QED
    BY <2>1, <2>2
<1>3. ASSUME NEW c \in Buffers PROVE ScriptInv(c)'
  <2>1. CASE script[c].path = NoFile
    BY <2>1 DEF ScriptInv
  <2>2. CASE script[c].path # NoFile
    <3>1. script'[c] = script[c]
      OBVIOUS
    <3>2. script[c].path # p \/ file'[p] \in {file[p], NoFile}
      BY <2>2
    <3>3. \A d \in Buffers :
            buffer'[d].path = script[c].path /\ script[c].path # NoFile =>
              /\ buffer[d].path = script[c].path
              /\ buffer[d].sealed => buffer'[d].sealed
      BY <1>1, <2>2
    <3> QED
      BY <3>1, <3>2, <3>3, ScriptsKept
  <2> QED
    BY <2>1, <2>2
<1>4. FilesAreDistinct'
  <2> SUFFICES ASSUME NEW c \in Buffers \ {b}, buffer'[b].path = buffer'[c].path
               PROVE  buffer'[b].path = NoFile
    BY <1>1 DEF FilesAreDistinct, IInv
  <2>1. r.path = buffer[c].path
    BY <1>1
  <2> QED
    BY <1>1, <2>1 DEF IInv, FilesAreDistinct
<1> QED
  BY <1>2, <1>3, <1>4 DEF IInv

\* A step that leaves files and names alone.
LEMMA FilesUntouched ==
  ASSUME TypeOK, file' = file, now' = now,
         CountName \/ (counter' = counter /\ made' = made)
  PROVE  OnlyFile(NoFile)
  BY RecentStays DEF OnlyFile

\* A file that goes away leaves every other file to its owner.
LEMMA RemovedFilesAreOwned ==
  ASSUME TypeOK, IInv, NEW b \in Buffers, NEW r, buffer' = [buffer EXCEPT ![b] = r],
         file' = Remove(buffer[b].path), left' = left
  PROVE  NoFileOutlivesItsBuffer'
<1> SUFFICES ASSUME NEW n \in FileName, file'[n] # NoFile
             PROVE  n \in left \/ \E c \in Buffers : buffer'[c].path = n
  BY DEF NoFileOutlivesItsBuffer
<1>1. n # buffer[b].path /\ file[n] # NoFile
  BY DEF Remove
<1>2. n \in left \/ \E c \in Buffers : buffer[c].path = n
  BY <1>1 DEF IInv, NoFileOutlivesItsBuffer
<1> QED
  BY <1>1, <1>2 DEF TypeOK

\* Clearing a buffer, and destroying it.
LEMMA ReleaseKeepsInv ==
  ASSUME TypeOK, IInv, NEW b \in Buffers, ClearBuffer(b) \/ Destroy(b)
  PROVE  IInv'
<1> DEFINE p == buffer[b].path
<1>1. PICK r : /\ r \in {Cleared(buffer[b]), NoBuffer}
               /\ buffer' = [buffer EXCEPT ![b] = r]
  BY DEF ClearBuffer, Destroy
<1>2. /\ file' = Remove(p) /\ left' = left /\ script' = script
      /\ now' = now /\ counter' = counter /\ made' = made
  BY DEF ClearBuffer, Destroy
<1>3. /\ r.path = NoFile /\ ~r.usingFile /\ r.mem = <<>> /\ r.written = <<>>
      /\ r.sealed = FALSE
  <2>1. CASE r = NoBuffer
    BY <2>1 DEF NoBuffer
  <2>2. CASE r = Cleared(buffer[b])
    BY <2>2 DEF Cleared, NoBuffer
  <2> QED
    BY <1>1, <2>1, <2>2
<1>4. OnlyFile(p)
  BY <1>2, RecentStays DEF OnlyFile, Remove, TypeOK
<1>5. \A c \in Buffers \ {b} : buffer[c].path # p \/ p = NoFile
  BY DEF IInv, FilesAreDistinct
<1>6. BufferInv(buffer[b])'
  <2>1. buffer'[b] = r
    BY <1>1 DEF TypeOK
  <2> QED
    BY <1>3, <2>1 DEF BufferInv
<1>7. \A c \in Buffers : script[c].path = p /\ p # NoFile => file'[p] = NoFile
  <2>1. p \in FileName \cup {NoFile}
    BY DEF TypeOK, Buffer
  <2> QED
    BY <1>2, <2>1 DEF Remove
<1>8. NoFileOutlivesItsBuffer'
  BY <1>1, <1>2, RemovedFilesAreOwned
<1>9. \A c \in Buffers :
        script[c].path # NoFile =>
          /\ script[c].path # p \/ file'[p] \in {file[p], NoFile}
          /\ r.path = script[c].path =>
               buffer[b].path = script[c].path /\ (buffer[b].sealed => r.sealed)
  BY <1>3, <1>7
<1>10. r.path \in {buffer[b].path, p, NoFile} /\ script' = script
  BY <1>2, <1>3
<1> HIDE DEF p
<1> QED
  BY <1>1, <1>4, <1>5, <1>6, <1>8, <1>9, <1>10, OneBufferStep

\* Steps that change a buffer and no file: writing to memory, reading.
LEMMA InPlaceKeepsInv ==
  ASSUME TypeOK, IInv, NEW b \in Buffers, NEW r, buffer' = [buffer EXCEPT ![b] = r],
         UNCHANGED <<file, now, counter, made, left, script>>,
         r.path = buffer[b].path, buffer[b].sealed => r.sealed, BufferInv(buffer[b])'
  PROVE  IInv'
<1>1. OnlyFile(NoFile)
  BY FilesUntouched
<1>2. NoFileOutlivesItsBuffer'
  BY DEF NoFileOutlivesItsBuffer, IInv, TypeOK
<1>3. \A c \in Buffers \ {b} : buffer[c].path # NoFile \/ NoFile = NoFile
  OBVIOUS
<1>4. \A c \in Buffers :
        script[c].path # NoFile =>
          /\ script[c].path # NoFile \/ file'[NoFile] \in {file[NoFile], NoFile}
          /\ r.path = script[c].path =>
               buffer[b].path = script[c].path /\ (buffer[b].sealed => r.sealed)
  OBVIOUS
<1>5. r.path \in {buffer[b].path, NoFile, NoFile} /\ script' = script
  OBVIOUS
<1> QED
  BY <1>1, <1>2, <1>3, <1>4, <1>5, OneBufferStep

LEMMA CreateKeepsInv ==
  ASSUME TypeOK, IInv, NEW b \in Buffers, Create(b)
  PROVE  IInv'
<1> DEFINE r == Cleared(NoBuffer)
<1>1. /\ r.path = NoFile /\ ~r.usingFile /\ r.mem = <<>> /\ r.written = <<>>
  BY DEF Cleared, NoBuffer
<1>2. buffer[b].path = NoFile
  BY DEF Create, IInv, BufferInv
<1>3. buffer' = [buffer EXCEPT ![b] = r] /\ UNCHANGED <<file, now, counter, made, left, script>>
  BY DEF Create
<1>4. buffer'[b] = r
  BY <1>3 DEF TypeOK
<1>5. BufferInv(buffer[b])'
  BY <1>1, <1>4 DEF BufferInv
<1> HIDE DEF r
<1>6. OnlyFile(NoFile) /\ NoFileOutlivesItsBuffer'
  <2>1. OnlyFile(NoFile)
    BY <1>3, FilesUntouched
  <2>2. \A n \in FileName : n # NoFile
    BY NoFileAssumption, LimitsAssumption DEF FileName
  <2>3. \A c \in Buffers, n \in FileName : buffer[c].path = n => buffer'[c].path = n
    BY <1>2, <1>3, <2>2 DEF TypeOK
  <2>4. NoFileOutlivesItsBuffer'
    BY <1>3, <2>3 DEF IInv, NoFileOutlivesItsBuffer
  <2> QED
    BY <2>1, <2>4
<1>7. \A c \in Buffers :
        script[c].path # NoFile =>
          /\ script[c].path # NoFile \/ file'[NoFile] \in {file[NoFile], NoFile}
          /\ r.path = script[c].path =>
               buffer[b].path = script[c].path /\ (buffer[b].sealed => r.sealed)
  BY <1>1
<1>8. r.path \in {buffer[b].path, NoFile, NoFile} /\ script' = script
  BY <1>1, <1>3
<1> QED
  BY <1>3, <1>5, <1>6, <1>7, <1>8, OneBufferStep

\* What a live buffer that is not sealed holds.
LEMMA WritableBuffers ==
  ASSUME TypeOK, IInv, NEW b \in Buffers, NEW d \in Data, Writable(b, d)
  PROVE  /\ buffer[b] \in Buffer /\ BufferInv(buffer[b]) /\ buffer[b].life = "live"
         /\ ~buffer[b].sealed /\ d \in Seq(Byte)
         /\ buffer[b].usingFile => buffer[b].path \in FileName
         /\ ~buffer[b].usingFile =>
              buffer[b].path = NoFile /\ buffer[b].mem = buffer[b].written
         /\ \A c \in Buffers : script[c].path # NoFile => script[c].path # buffer[b].path
  BY DataIsTyped DEF TypeOK, IInv, Writable, BufferInv, ScriptInv, Buffer

\* A write that makes a new file, whether it succeeds or throws.
LEMMA NewFileKeepsInv ==
  ASSUME TypeOK, IInv, NEW b \in Buffers, NEW r, NEW p,
         p = GenerateTempFileName, ~buffer[b].usingFile, buffer[b].path = NoFile,
         CountName, now' = now, script' = script, left \ {p} \subseteq left',
         buffer' = [buffer EXCEPT ![b] = r], r.path = p,
         \A n \in FileName : n # p => file'[n] = file[n],
         r.life # "none",
         r.life = "live" =>
           r.usingFile /\ file'[p] = r.written /\ r.total = Len(r.written)
  PROVE  IInv'
<1>1. p \in FileName /\ p # NoFile
  BY NamesAreTyped, NoFileAssumption, LimitsAssumption DEF FileName
<1>2. OnlyFile(p)
  <2>1. \A n \in FileName : Recent(n) => Recent(n)'
    BY RecentStays
  <2> QED
    BY <2>1 DEF OnlyFile
<1>3. \A n \in FileName : Recent(n) => n # p
  BY NewNameIsNew DEF CountName
<1>4. \A c \in Buffers : buffer[c].path # p
  BY <1>1, <1>3 DEF TypeOK, Buffer, IInv, BufferInv
<1>5. \A c \in Buffers : script[c].path # p
  BY <1>1, <1>3 DEF TypeOK, Script, IInv, ScriptInv
<1>6. buffer'[b] = r
  BY DEF TypeOK
<1>7. BufferInv(buffer[b])'
  <2>1. Recent(p)'
    BY NewNameIsRecent
  <2>2. Recent(buffer[b].path)'
    BY <1>6, <2>1 DEF Recent
  <2> QED
    BY <1>1, <1>6, <2>2 DEF BufferInv
<1>8. NoFileOutlivesItsBuffer'
  <2> SUFFICES ASSUME NEW n \in FileName, file'[n] # NoFile
               PROVE  n \in left' \/ \E c \in Buffers : buffer'[c].path = n
    BY DEF NoFileOutlivesItsBuffer
  <2>1. CASE n = p
    BY <1>6, <2>1
  <2>2. CASE n # p
    <3>1. n \in left \/ \E c \in Buffers : buffer[c].path = n
      BY <2>2 DEF IInv, NoFileOutlivesItsBuffer
    <3>2. ASSUME NEW c \in Buffers, buffer[c].path = n PROVE buffer'[c].path = n
      <4>1. c # b
        BY <3>2, NoFileAssumption DEF FileName
      <4> QED
        BY <3>2, <4>1 DEF TypeOK
    <3> QED
      BY <2>2, <3>1, <3>2
  <2> QED
    BY <2>1, <2>2
<1>9. \A c \in Buffers :
        script[c].path # NoFile =>
          /\ script[c].path # p \/ file'[p] \in {file[p], NoFile}
          /\ r.path = script[c].path =>
               buffer[b].path = script[c].path /\ (buffer[b].sealed => r.sealed)
  BY <1>5
<1>10. \A c \in Buffers \ {b} : buffer[c].path # p \/ p = NoFile
  BY <1>4
<1>11. r.path \in {buffer[b].path, p, NoFile}
  OBVIOUS
<1> QED
  BY <1>2, <1>7, <1>8, <1>9, <1>10, <1>11, OneBufferStep

\* Writing to the file a buffer has, whether it succeeds or throws.
LEMMA SameFileKeepsInv ==
  ASSUME TypeOK, IInv, NEW b \in Buffers, NEW r, NEW d \in Data, Writable(b, d),
         buffer[b].usingFile, UNCHANGED <<now, counter, made, left, script>>,
         buffer' = [buffer EXCEPT ![b] = r], r.path = buffer[b].path,
         \A n \in FileName : n # buffer[b].path => file'[n] = file[n],
         r.life # "none",
         r.life = "live" =>
           r.usingFile /\ file'[r.path] = r.written /\ r.total = Len(r.written)
  PROVE  IInv'
<1> DEFINE p == buffer[b].path
<1>1. p \in FileName /\ p # NoFile
  BY WritableBuffers DEF BufferInv
<1>2. OnlyFile(p)
  BY RecentStays DEF OnlyFile
<1>3. \A c \in Buffers \ {b} : buffer[c].path # p
  BY <1>1 DEF IInv, FilesAreDistinct
<1>4. \A c \in Buffers : script[c].path # NoFile => script[c].path # p
  BY WritableBuffers
<1>5. buffer'[b] = r
  BY DEF TypeOK
<1>6. BufferInv(buffer[b])'
  <2>1. Recent(p)
    BY <1>1, WritableBuffers DEF BufferInv
  <2>2. Recent(buffer[b].path)'
    BY <1>5, <2>1 DEF Recent
  <2> QED
    BY <1>1, <1>5, <2>2 DEF BufferInv
<1>7. NoFileOutlivesItsBuffer'
  <2> SUFFICES ASSUME NEW n \in FileName, file'[n] # NoFile
               PROVE  n \in left \/ \E c \in Buffers : buffer'[c].path = n
    BY DEF NoFileOutlivesItsBuffer
  <2>1. CASE n = p
    BY <1>5, <2>1
  <2>2. CASE n # p
    BY <2>2 DEF IInv, NoFileOutlivesItsBuffer, TypeOK
  <2> QED
    BY <2>1, <2>2
<1>8. \A c \in Buffers :
        script[c].path # NoFile =>
          /\ script[c].path # p \/ file'[p] \in {file[p], NoFile}
          /\ r.path = script[c].path =>
               buffer[b].path = script[c].path /\ (buffer[b].sealed => r.sealed)
  BY <1>4
<1>9. r.path \in {buffer[b].path, p, NoFile} /\ script' = script
  OBVIOUS
<1> HIDE DEF p
<1> QED
  BY ZenonT(60), <1>2, <1>3, <1>6, <1>7, <1>8, <1>9, OneBufferStep

LEMMA WriteKeepsInv ==
  ASSUME TypeOK, IInv, NEW b \in Buffers, NEW d \in Data, WriteToBuffer(b, d)
  PROVE  IInv'
<1>0. /\ buffer[b] \in Buffer /\ BufferInv(buffer[b]) /\ buffer[b].life = "live"
      /\ d \in Seq(Byte) /\ Writable(b, d)
      /\ ~buffer[b].usingFile =>
           buffer[b].path = NoFile /\ buffer[b].mem = buffer[b].written
  BY WritableBuffers DEF WriteToBuffer
<1>1. CASE WriteToMemory(b, d)
  <2> DEFINE r == KeptInMemory(buffer[b], d)
  <2>1. /\ r.path = NoFile /\ ~r.usingFile /\ r.life = "live"
        /\ r.mem = buffer[b].mem \o d /\ r.written = buffer[b].written \o d
        /\ r.sealed = buffer[b].sealed
    BY <1>0, <1>1 DEF KeptInMemory, WriteToMemory, Buffer
  <2>2. buffer'[b] = r
    BY <1>1 DEF WriteToMemory, TypeOK
  <2>3. BufferInv(buffer[b])'
    BY <1>0, <1>1, <2>1, <2>2 DEF BufferInv, WriteToMemory
  <2>4. /\ buffer' = [buffer EXCEPT ![b] = r] /\ r.path = buffer[b].path
        /\ UNCHANGED <<file, now, counter, made, left, script>>
    BY <1>0, <1>1, <2>1 DEF WriteToMemory
  <2> HIDE DEF r
  <2> QED
    BY <2>1, <2>3, <2>4, InPlaceKeepsInv
<1>2. CASE Spill(b, d)
  <2> DEFINE r == MovedToFile(buffer[b], d)
             p == GenerateTempFileName
  <2>1. /\ r.path = p /\ r.usingFile /\ r.life = "live"
        /\ r.written = buffer[b].written \o d
        /\ r.total = Len(buffer[b].mem \o d)
    BY <1>0 DEF MovedToFile, SpilledBytes, Buffer
  <2>2. p \in FileName
    BY NamesAreTyped
  <2>3. /\ file'[p] = buffer[b].mem \o d
        /\ \A n \in FileName : n # p => file'[n] = file[n]
    BY <1>2, <2>2 DEF Spill, SpilledBytes, TypeOK
  <2>4. /\ ~buffer[b].usingFile /\ CountName /\ now' = now /\ script' = script
        /\ left \ {p} \subseteq left' /\ buffer' = [buffer EXCEPT ![b] = r]
    BY <1>2 DEF Spill, Spills
  <2>5. p = GenerateTempFileName
    OBVIOUS
  <2> HIDE DEF r, p
  <2>6. /\ r.life # "none" /\ buffer[b].path = NoFile
        /\ file'[p] = r.written /\ r.total = Len(r.written)
    BY <1>0, <2>1, <2>3, <2>4
  <2> QED
    BY <2>1, <2>3, <2>4, <2>5, <2>6, NewFileKeepsInv
<1>3. CASE WriteToFile(b, d)
  <2> DEFINE r == AddedToFile(buffer[b], d)
             p == buffer[b].path
  <2>1. p \in FileName /\ file[p] = buffer[b].written /\ buffer[b].usingFile
    BY <1>0, <1>3, WritableBuffers DEF BufferInv, WriteToFile
  <2>2. Exists(p)
    BY <1>0, <2>1, NoFileAssumption DEF Exists, Buffer
  <2>3. /\ r.path = p /\ r.usingFile /\ r.life = "live"
        /\ r.written = buffer[b].written \o d
        /\ r.total = Len(buffer[b].written) + Len(d)
    BY <1>0, <2>1 DEF AddedToFile, BufferInv, Buffer
  <2>4. r.total = Len(r.written)
    BY <1>0, <2>3 DEF Buffer
  <2>5. /\ file'[p] = r.written
        /\ \A n \in FileName : n # p => file'[n] = file[n]
    BY <1>3, <2>1, <2>2, <2>3 DEF WriteToFile, TypeOK
  <2>6. /\ UNCHANGED <<now, counter, made, left, script>>
        /\ buffer' = [buffer EXCEPT ![b] = r]
    BY <1>3 DEF WriteToFile
  <2> HIDE DEF r
  <2> QED
    BY <1>0, <2>1, <2>3, <2>4, <2>5, <2>6, SameFileKeepsInv
<1> QED
  BY <1>1, <1>2, <1>3 DEF WriteToBuffer

LEMMA FailedWriteKeepsInv ==
  ASSUME TypeOK, IInv, NEW b \in Buffers, NEW d \in Data, WriteFails(b, d)
  PROVE  IInv'
<1>0. /\ buffer[b] \in Buffer /\ d \in Seq(Byte) /\ Writable(b, d)
      /\ ~buffer[b].usingFile => buffer[b].path = NoFile
      /\ now' = now /\ script' = script
  BY WritableBuffers DEF WriteFails
<1>1. \A q : FailedOn(buffer[b], q).life = "failed" /\ FailedOn(buffer[b], q).path = q
  BY <1>0 DEF FailedOn, Buffer
<1>2. CASE Spills(b, d) /\ (OpenFails(b) \/ SpillFails(b, d))
  <2> DEFINE p == GenerateTempFileName
             r == FailedOn(buffer[b], p)
  <2>1. /\ r.life = "failed" /\ r.path = p /\ ~buffer[b].usingFile
        /\ buffer' = [buffer EXCEPT ![b] = r] /\ CountName
        /\ left \ {p} \subseteq left'
    BY <1>1, <1>2 DEF OpenFails, SpillFails, Spills
  <2>2. \A n \in FileName : n # p => file'[n] = file[n]
    BY <1>2 DEF OpenFails, SpillFails, TypeOK
  <2>3. p = GenerateTempFileName
    OBVIOUS
  <2> HIDE DEF r, p
  <2> QED
    BY <1>0, <2>1, <2>2, <2>3, NewFileKeepsInv
<1>3. CASE AppendFails(b)
  <2> DEFINE r == FailedOn(buffer[b], buffer[b].path)
  <2>1. /\ r.life = "failed" /\ r.path = buffer[b].path /\ buffer[b].usingFile
        /\ buffer' = [buffer EXCEPT ![b] = r]
        /\ UNCHANGED <<now, counter, made, left, script>>
    BY <1>0, <1>1, <1>3 DEF AppendFails
  <2>2. \A n \in FileName : n # buffer[b].path => file'[n] = file[n]
    BY <1>3 DEF AppendFails
  <2> HIDE DEF r
  <2> QED
    BY <1>0, <2>1, <2>2, SameFileKeepsInv
<1> QED
  BY <1>2, <1>3 DEF WriteFails

\* Reading a buffer only marks it.
LEMMA StreamKeepsInv ==
  ASSUME TypeOK, IInv, NEW b \in Buffers, GetStream(b)
  PROVE  IInv'
<1> DEFINE r == Streamed(buffer[b])
<1>1. buffer[b] \in Buffer /\ BufferInv(buffer[b])
  BY DEF TypeOK, IInv
<1>2. /\ r.path = buffer[b].path /\ r.sealed = TRUE /\ r.usingFile = buffer[b].usingFile
      /\ r.life = buffer[b].life /\ r.mem = buffer[b].mem /\ r.total = buffer[b].total
      /\ r.written = buffer[b].written
  BY <1>1 DEF Streamed, Buffer
<1>3. /\ buffer' = [buffer EXCEPT ![b] = r]
      /\ UNCHANGED <<file, now, counter, made, left, script>>
  BY DEF GetStream
<1>4. buffer'[b] = r
  BY <1>3 DEF TypeOK
<1> HIDE DEF r
<1>5. BufferInv(buffer[b])'
  BY <1>1, <1>2, <1>3, <1>4 DEF BufferInv, Recent
<1> QED
  BY <1>2, <1>3, <1>5, InPlaceKeepsInv

\* A script starts with the file of its buffer, which is written no more.
LEMMA ForkKeepsInv ==
  ASSUME TypeOK, IInv, NEW b \in Buffers, ForkScript(b)
  PROVE  IInv'
<1> DEFINE r == Sealed(buffer[b])
<1>1. /\ buffer[b] \in Buffer /\ BufferInv(buffer[b]) /\ buffer[b].life = "live"
      /\ buffer[b].path \in FileName \cup {NoFile}
  BY DEF TypeOK, IInv, ForkScript, Buffer
<1>2. /\ r.path = buffer[b].path /\ r.sealed = TRUE /\ r.usingFile = buffer[b].usingFile
      /\ r.life = buffer[b].life /\ r.mem = buffer[b].mem /\ r.total = buffer[b].total
      /\ r.written = buffer[b].written
  BY <1>1 DEF Sealed, Buffer
<1>3. /\ buffer' = [buffer EXCEPT ![b] = r]
      /\ UNCHANGED <<file, now, counter, made, left>>
  BY DEF ForkScript
<1>4. buffer'[b] = r /\ \A c \in Buffers \ {b} : buffer'[c] = buffer[c]
  BY <1>3 DEF TypeOK
<1> HIDE DEF r
<1>5. \A c \in Buffers : buffer'[c].path = buffer[c].path
  BY <1>2, <1>4
<1>6. ASSUME NEW c \in Buffers PROVE BufferInv(buffer[c])'
  <2>1. BufferInv(buffer[c])
    BY DEF IInv
  <2>2. CASE c = b
    BY <1>2, <1>3, <1>4, <2>1, <2>2 DEF BufferInv, Recent
  <2>3. CASE c # b
    BY <1>3, <1>4, <2>1, <2>3 DEF BufferInv, Recent
  <2> QED
    BY <2>2, <2>3
<1>7. ASSUME NEW c \in Buffers, c # b PROVE ScriptInv(c)'
  <2>1. script'[c] = script[c] /\ ScriptInv(c)
    BY <1>7 DEF ForkScript, TypeOK, IInv
  <2>2. buffer'[c] = buffer[c]
    BY <1>4, <1>7
  <2> QED
    BY <1>3, <1>5, <2>1, <2>2 DEF ScriptInv, Recent
<1>8. ScriptInv(b)'
  <2>1. CASE ~buffer[b].usingFile
    BY <2>1 DEF ForkScript, TypeOK, ScriptInv, NoScript
  <2>2. CASE buffer[b].usingFile
    <3>1. script'[b] = [path |-> buffer[b].path, body |-> GetAllContent(b)]
      BY <2>2 DEF ForkScript, TypeOK
    <3>2. /\ buffer[b].path \in FileName /\ Recent(buffer[b].path)
          /\ file[buffer[b].path] = buffer[b].written
      BY <1>1, <2>2 DEF BufferInv
    <3>3. GetAllContent(b) = file[buffer[b].path]
      BY <1>1, <2>2, <3>2, NoFileAssumption DEF GetAllContent, Exists, Buffer
    <3>4. \A c \in Buffers : buffer'[c].path = buffer[b].path => c = b
      BY <1>1, <1>5, <2>2 DEF IInv, FilesAreDistinct, BufferInv
    <3>5. /\ script'[b].path = buffer[b].path
          /\ script'[b].body = file[buffer[b].path]
      BY <3>1, <3>3
    <3>6. buffer'[b].sealed
      BY <1>2, <1>4
    <3>7. Recent(buffer[b].path) = Recent(script[b].path)'
      BY <1>3, <3>5 DEF Recent
    <3>8. file'[script'[b].path] \in {script'[b].body, NoFile}
      BY <1>3, <3>5
    <3>9. \A c \in Buffers :
            buffer'[c].path = script'[b].path => c = b /\ buffer'[b].sealed
      BY <3>4, <3>5, <3>6
    <3> QED
      BY <3>2, <3>7, <3>8, <3>9 DEF ScriptInv
  <2> QED
    BY <2>1, <2>2
<1>9. FilesAreDistinct' /\ NoFileOutlivesItsBuffer'
  BY <1>3, <1>5 DEF IInv, FilesAreDistinct, NoFileOutlivesItsBuffer
<1> QED
  BY <1>6, <1>7, <1>8, <1>9 DEF IInv

\* Steps that change neither buffers nor files: time and names go on, scripts
\* end.
LEMMA ElsewhereKeepsInv ==
  ASSUME TypeOK, IInv, UNCHANGED <<buffer, file, left>>,
         \A c \in Buffers : script'[c] \in {script[c], NoScript},
         \A n \in FileName : Recent(n) => Recent(n)'
  PROVE  IInv'
<1>1. ASSUME NEW c \in Buffers PROVE BufferInv(buffer[c])'
  <2>1. BufferInv(buffer[c]) /\ buffer[c].path \in FileName \cup {NoFile}
    BY DEF IInv, TypeOK, Buffer
  <2> QED
    BY <2>1 DEF BufferInv, Recent
<1>2. ASSUME NEW c \in Buffers PROVE ScriptInv(c)'
  <2>1. ScriptInv(c) /\ script[c].path \in FileName \cup {NoFile}
    BY DEF IInv, TypeOK, Script
  <2>2. CASE script'[c] = NoScript
    BY <2>2 DEF ScriptInv, NoScript
  <2>3. CASE script'[c] = script[c]
    BY <2>1, <2>3 DEF ScriptInv, Recent
  <2> QED
    BY <2>2, <2>3
<1>3. FilesAreDistinct' /\ NoFileOutlivesItsBuffer'
  BY DEF IInv, FilesAreDistinct, NoFileOutlivesItsBuffer
<1> QED
  BY <1>1, <1>2, <1>3 DEF IInv

LEMMA CrashKeepsInv ==
  ASSUME TypeOK, Crash
  PROVE  IInv'
<1>1. \A c \in Buffers :
        /\ buffer'[c].path = NoFile /\ buffer'[c].life = "none"
        /\ script'[c].path = NoFile
  BY DEF Crash, NoBuffer, NoScript
<1>2. \A c \in Buffers : BufferInv(buffer[c])' /\ ScriptInv(c)'
  BY <1>1 DEF BufferInv, ScriptInv
<1>3. FilesAreDistinct'
  BY <1>1 DEF FilesAreDistinct
<1>4. NoFileOutlivesItsBuffer'
  BY DEF Crash, NoFileOutlivesItsBuffer
<1> QED
  BY <1>2, <1>3, <1>4 DEF IInv

-----------------------------------------------------------------------------
(* The theorems                                                            *)

\* The inductive invariant: where every buffer's bytes are, and that a file a
\* buffer or a script counts on is theirs alone.
THEOREM Inductive == Spec => [](TypeOK /\ IInv)
<1>1. Init => IInv
  <2> SUFFICES ASSUME Init PROVE IInv
    OBVIOUS
  <2>1. \A c \in Buffers :
          buffer[c].path = NoFile /\ buffer[c].life = "none" /\ script[c].path = NoFile
    BY DEF Init, NoBuffer, NoScript
  <2>2. \A c \in Buffers : BufferInv(buffer[c]) /\ ScriptInv(c)
    BY <2>1 DEF BufferInv, ScriptInv
  <2>3. FilesAreDistinct /\ NoFileOutlivesItsBuffer
    BY <2>1 DEF Init, FilesAreDistinct, NoFileOutlivesItsBuffer
  <2> QED
    BY <2>2, <2>3 DEF IInv
<1>2. TypeOK /\ IInv /\ [Next]_vars => IInv'
  <2> SUFFICES ASSUME TypeOK, IInv, [Next]_vars PROVE IInv'
    OBVIOUS
  <2>1. ASSUME NEW b \in Buffers, ScriptOpens(b) PROVE IInv'
    <3>1. \A c \in Buffers : script'[c] \in {script[c], NoScript}
      BY <2>1 DEF ScriptOpens, TypeOK
    <3>2. \A n \in FileName : Recent(n) => Recent(n)'
      BY <2>1 DEF ScriptOpens, Recent
    <3> QED
      BY <2>1, <3>1, <3>2, ElsewhereKeepsInv DEF ScriptOpens
  <2>2. CASE NameUpload \/ Tick
    <3>1. \A n \in FileName : Recent(n) => Recent(n)'
      BY <2>2, RecentStays DEF NameUpload
    <3> QED
      BY <2>2, <3>1, ElsewhereKeepsInv DEF NameUpload, Tick
  <2>3. CASE UNCHANGED vars
    <3>1. \A n \in FileName : Recent(n) => Recent(n)'
      BY <2>3 DEF vars, Recent
    <3> QED
      BY <2>3, <3>1, ElsewhereKeepsInv DEF vars
  <2> QED
    BY <2>1, <2>2, <2>3, CreateKeepsInv, ReleaseKeepsInv, StreamKeepsInv, ForkKeepsInv,
       WriteKeepsInv, FailedWriteKeepsInv, CrashKeepsInv DEF Next
<1> QED
  BY <1>1, <1>2, TypeCorrect, PTL DEF Spec

\* What a live buffer gives back, under the inductive invariant.
LEMMA LiveContent ==
  ASSUME TypeOK, IInv, NEW b \in Buffers, buffer[b].life = "live"
  PROVE  /\ GetAllContent(b) = buffer[b].written
         /\ GetBufferSize(b) = Len(GetAllContent(b))
<1>1. buffer[b] \in Buffer /\ BufferInv(buffer[b])
  BY DEF TypeOK, IInv
<1>2. CASE buffer[b].usingFile
  <2>1. /\ file[buffer[b].path] = buffer[b].written /\ buffer[b].path \in FileName
        /\ buffer[b].total = Len(buffer[b].written)
    BY <1>1, <1>2 DEF BufferInv, Buffer
  <2>2. Exists(buffer[b].path)
    BY <1>1, <2>1, NoFileAssumption DEF Exists, Buffer
  <2> QED
    BY <1>2, <2>1, <2>2 DEF GetAllContent, GetBufferSize
<1>3. CASE ~buffer[b].usingFile
  BY <1>1, <1>3 DEF BufferInv, GetAllContent, GetBufferSize
<1> QED
  BY <1>2, <1>3

\* Whatever order buffers are written, cleared and destroyed in, whichever
\* writes fail and whenever the server dies, a buffer holds what was written
\* to it, and counts it right.
THEOREM ContentKept == Spec => []ContentIsWhatWasWritten
<1>1. TypeOK /\ IInv => ContentIsWhatWasWritten
  BY LiveContent DEF ContentIsWhatWasWritten
<1> QED
  BY <1>1, Inductive, PTL

\* No two buffers share a file.
THEOREM FilesOwned == Spec => []FilesAreDistinct
<1>1. IInv => FilesAreDistinct
  BY DEF IInv
<1> QED
  BY <1>1, Inductive, PTL

\* No file is left but by a server that died.
THEOREM FilesEnd == Spec => []NoFileOutlivesItsBuffer
<1>1. IInv => NoFileOutlivesItsBuffer
  BY DEF IInv
<1> QED
  BY <1>1, Inductive, PTL

\* However late the process of a script opens its input, it gets the body of
\* its own request or nothing.
THEOREM ScriptsReadTheirBody == Spec => []ScriptReadsItsBody
<1>1. TypeOK /\ IInv => ScriptReadsItsBody
  <2> SUFFICES ASSUME TypeOK, IInv, NEW b \in Buffers
               PROVE  ScriptInput(b) \in {script[b].body, <<>>}
    BY DEF ScriptReadsItsBody
  <2>1. CASE ~Exists(script[b].path)
    BY <2>1 DEF ScriptInput
  <2>2. CASE Exists(script[b].path)
    <3>1. script[b].path # NoFile
      BY <2>2, NoFileAssumption DEF Exists, FileName
    <3> QED
      BY <2>2, <3>1 DEF ScriptInput, Exists, IInv, ScriptInv
  <2> QED
    BY <2>1, <2>2
<1> QED
  BY <1>1, Inductive, PTL
=============================================================================
