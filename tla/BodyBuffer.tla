----------------------------- MODULE BodyBuffer -----------------------------
(***************************************************************************)
(* Buffer and FileHandler: the body of a request, or the page of a         *)
(* response, in memory up to a threshold and in a temporary file beyond.   *)
(* All buffers of the process share the directory tmp/ and the counter     *)
(* their file names are made of.  A CGI script reads the body of its       *)
(* request through a descriptor that its process opens after the fork.     *)
(***************************************************************************)
EXTENDS Integers, Sequences

CONSTANTS
  Buffers,         \* Buffer objects, one slot each
  Byte,
  MEM_LIMIT,
  COUNTER_MAX,     \* __INT16_MAX__
  NoFile,          \* no path, or no file under a path
  MaxLength,       \* bound on the bytes written between two clears
  MaxTime,         \* bound on the seconds of a run
  MaxNames         \* bound on the names made in one second

ASSUME LimitsAssumption ==
  /\ MEM_LIMIT \in Nat /\ COUNTER_MAX \in Nat \ {0}
  /\ MaxLength \in Nat /\ MaxTime \in Nat
\* 32767 files of more than MEM_LIMIT bytes do not come in one second.
ASSUME NamesAssumption == MaxNames \in Nat /\ MaxNames <= COUNTER_MAX
ASSUME NoFileAssumption == NoFile \notin Seq(Byte) /\ NoFile \notin Nat \X Nat

VARIABLES
  buffer,    \* the Buffer objects
  file,      \* the files of tmp/: what is in them, NoFile if there is none
  now,       \* std::time(0)
  counter,   \* the static counter of generateRandomFileName
  made,      \* how many names were made in this second
  left,      \* names of the files a dead server left behind
  script     \* the process of the script that reads a body
vars == <<buffer, file, now, counter, made, left, script>>

-----------------------------------------------------------------------------
(* Files                                                                   *)

FileName == (0 .. MaxTime) \X (0 .. COUNTER_MAX - 1)

\* Mutant: the name is made of the second alone.
GenerateTempFileNameBySecond == <<now, 0>>
\* tmp/_<seconds><counter>.tmp
GenerateTempFileName == <<now, counter>>

NextCounter == IF counter + 1 = COUNTER_MAX THEN 0 ELSE counter + 1

\* The counter moves on with every name, temporary or uploaded.
CountName ==
  /\ made < MaxNames
  /\ counter' = NextCounter
  /\ made' = made + 1

\* std::remove(), of a path that may be empty or that nothing is at.
Remove(path) == [n \in FileName |-> IF n = path THEN NoFile ELSE file[n]]

Exists(path) == path \in FileName /\ file[path] # NoFile

-----------------------------------------------------------------------------
(* Buffers                                                                 *)

\* total is _totalSize; streaming says that _fileStream has been opened, and
\* sealed that the request is complete and being answered, which stops writes.
\* History: written is what the owner wrote since the last clear, streamed how
\* the last getStream() went.
Buffer ==
  [life : {"none", "live", "failed"}, mem : Seq(Byte), usingFile : BOOLEAN,
   path : FileName \cup {NoFile}, total : Nat, streaming : BOOLEAN,
   sealed : BOOLEAN, written : Seq(Byte), streamed : {"unread", "whole", "nothing"}]

NoBuffer ==
  [life |-> "none", mem |-> <<>>, usingFile |-> FALSE, path |-> NoFile, total |-> 0,
   streaming |-> FALSE, sealed |-> FALSE, written |-> <<>>, streamed |-> "unread"]

GetAllContent(b) ==
  IF ~buffer[b].usingFile THEN buffer[b].mem
  ELSE IF Exists(buffer[b].path) THEN file[buffer[b].path] ELSE <<>>

GetBufferSize(b) ==
  IF buffer[b].usingFile THEN buffer[b].total ELSE Len(buffer[b].mem)

Spills(b, data) == ~buffer[b].usingFile /\ Len(buffer[b].mem) + Len(data) > MEM_LIMIT

\* A script's process that has yet to open the file its body is in, and what
\* was in it at the fork.
Script == [path : FileName \cup {NoFile}, body : Seq(Byte)]
NoScript == [path |-> NoFile, body |-> <<>>]

Init ==
  /\ buffer = [b \in Buffers |-> NoBuffer]
  /\ file = [n \in FileName |-> NoFile]
  /\ now = 0 /\ counter = 0 /\ made = 0
  /\ left = {}
  /\ script = [b \in Buffers |-> NoScript]

Cleared(r) == [NoBuffer EXCEPT !.life = "live", !.streaming = r.streaming]

Create(b) ==
  /\ buffer[b].life = "none"
  /\ buffer' = [buffer EXCEPT ![b] = Cleared(NoBuffer)]
  /\ UNCHANGED <<file, now, counter, made, left, script>>

Writable(b, data) ==
  /\ buffer[b].life = "live" /\ ~buffer[b].sealed
  /\ Len(buffer[b].written) + Len(data) <= MaxLength

\* Mutant: what the buffer held in memory is not moved to the file.
SpilledBytesForget(r, data) == data
SpilledBytes(r, data) == r.mem \o data

KeptInMemory(r, data) == [r EXCEPT !.mem = @ \o data, !.written = @ \o data]

MovedToFile(r, data) ==
  [r EXCEPT !.mem = <<>>, !.usingFile = TRUE, !.path = GenerateTempFileName,
            !.total = Len(SpilledBytes(r, data)), !.written = @ \o data]

AddedToFile(r, data) == [r EXCEPT !.total = @ + Len(data), !.written = @ \o data]

WriteToMemory(b, data) ==
  /\ ~buffer[b].usingFile /\ ~Spills(b, data)
  /\ buffer' = [buffer EXCEPT ![b] = KeptInMemory(buffer[b], data)]
  /\ UNCHANGED <<file, now, counter, made, left, script>>

\* A file that exists already is truncated.
Spill(b, data) ==
  /\ Spills(b, data)
  /\ CountName
  /\ file' = [file EXCEPT ![GenerateTempFileName] = SpilledBytes(buffer[b], data)]
  /\ left' = left \ {GenerateTempFileName}
  /\ buffer' = [buffer EXCEPT ![b] = MovedToFile(buffer[b], data)]
  /\ UNCHANGED <<now, script>>

\* The stream writes on to a file that has been removed, where nobody reads.
WriteToFile(b, data) ==
  /\ buffer[b].usingFile
  /\ file' = IF Exists(buffer[b].path)
             THEN [file EXCEPT ![buffer[b].path] = @ \o data]
             ELSE file
  /\ buffer' = [buffer EXCEPT ![b] = AddedToFile(buffer[b], data)]
  /\ UNCHANGED <<now, counter, made, left, script>>

WriteToBuffer(b, data) ==
  /\ Writable(b, data)
  /\ WriteToMemory(b, data) \/ Spill(b, data) \/ WriteToFile(b, data)

-----------------------------------------------------------------------------
(* Writes that throw.  The handler's catch block then removes the client,  *)
(* and its buffers with it.                                                *)

FailedOn(r, path) == [r EXCEPT !.life = "failed", !.path = path]

\* createFile() throws: the name is kept, no file is made.
OpenFails(b) ==
  /\ CountName
  /\ buffer' = [buffer EXCEPT ![b] = FailedOn(buffer[b], GenerateTempFileName)]
  /\ UNCHANGED <<file, left>>

\* writeToFile() throws after createFile(): the file holds some of the bytes.
SpillFails(b, data) ==
  /\ CountName
  /\ \E n \in 0 .. Len(SpilledBytes(buffer[b], data)) :
       file' = [file EXCEPT ![GenerateTempFileName] =
                  SubSeq(SpilledBytes(buffer[b], data), 1, n)]
  /\ left' = left \ {GenerateTempFileName}
  /\ buffer' = [buffer EXCEPT ![b] = FailedOn(buffer[b], GenerateTempFileName)]

\* Nobody reads what part of the piece the file got.
AppendFails(b) ==
  /\ buffer[b].usingFile
  /\ buffer' = [buffer EXCEPT ![b] = FailedOn(buffer[b], buffer[b].path)]
  /\ UNCHANGED <<file, counter, made, left>>

WriteFails(b, data) ==
  /\ Writable(b, data)
  /\ \/ Spills(b, data) /\ (OpenFails(b) \/ SpillFails(b, data))
     \/ AppendFails(b)
  /\ UNCHANGED <<now, script>>

-----------------------------------------------------------------------------

\* Mutant: the file stays.
ClearBufferKeepsFile(b) ==
  /\ buffer[b].life = "live"
  /\ buffer' = [buffer EXCEPT ![b] = Cleared(buffer[b])]
  /\ UNCHANGED <<file, now, counter, made, left, script>>
\* clearFile() truncates and removes the file; _fileStream stays open.
ClearBuffer(b) ==
  /\ buffer[b].life = "live"
  /\ buffer' = [buffer EXCEPT ![b] = Cleared(buffer[b])]
  /\ file' = Remove(buffer[b].path)
  /\ UNCHANGED <<now, counter, made, left, script>>

Destroy(b) ==
  /\ buffer[b].life # "none"
  /\ buffer' = [buffer EXCEPT ![b] = NoBuffer]
  /\ file' = Remove(buffer[b].path)
  /\ UNCHANGED <<now, counter, made, left, script>>

\* getStream(), read to its end: a file stream that is open already stands at
\* the end of a file that no longer has a name.
Streamed(r) ==
  [r EXCEPT !.sealed = TRUE, !.streaming = r.streaming \/ r.usingFile,
            !.streamed = IF r.usingFile /\ r.streaming THEN "nothing" ELSE "whole"]
GetStream(b) ==
  /\ buffer[b].life = "live" /\ ~buffer[b].sealed
  /\ buffer' = [buffer EXCEPT ![b] = Streamed(buffer[b])]
  /\ UNCHANGED <<file, now, counter, made, left, script>>

\* The request is answered by a script.  A body in memory is copied by the fork.
Sealed(r) == [r EXCEPT !.sealed = TRUE]
ForkScript(b) ==
  /\ buffer[b].life = "live" /\ ~buffer[b].sealed /\ script[b] = NoScript
  /\ buffer' = [buffer EXCEPT ![b] = Sealed(buffer[b])]
  /\ script' = [script EXCEPT ![b] =
       IF buffer[b].usingFile
       THEN [path |-> buffer[b].path, body |-> GetAllContent(b)]
       ELSE NoScript]
  /\ UNCHANGED <<file, now, counter, made, left>>

\* What getReadableFd() gives the child if it is called now.
ScriptInput(b) == IF Exists(script[b].path) THEN file[script[b].path] ELSE <<>>

\* The child opens the file, or ends because there is none, or was killed.
ScriptOpens(b) ==
  /\ script[b] # NoScript
  /\ script' = [script EXCEPT ![b] = NoScript]
  /\ UNCHANGED <<buffer, file, now, counter, made, left>>

\* The name of an uploaded text file comes from the same counter.
NameUpload ==
  /\ CountName
  /\ UNCHANGED <<buffer, file, now, left, script>>

Tick ==
  /\ now < MaxTime
  /\ now' = now + 1 /\ made' = 0
  /\ UNCHANGED <<buffer, file, counter, left, script>>

\* The process dies without running destructors (SIGPIPE, SIGKILL) and is
\* started again; scripts of the dead server are not followed.
Crash ==
  /\ left' = {n \in FileName : file[n] # NoFile}
  /\ buffer' = [b \in Buffers |-> NoBuffer]
  /\ script' = [b \in Buffers |-> NoScript]
  /\ counter' = 0 /\ made' = 0
  /\ UNCHANGED <<file, now>>

Data == UNION {[1 .. n -> Byte] : n \in 1 .. MaxLength}

Next ==
  \/ \E b \in Buffers :
       \/ Create(b) \/ ClearBuffer(b) \/ Destroy(b) \/ GetStream(b)
       \/ ForkScript(b) \/ ScriptOpens(b)
       \/ \E data \in Data : WriteToBuffer(b, data) \/ WriteFails(b, data)
  \/ NameUpload \/ Tick \/ Crash

Spec == Init /\ [][Next]_vars

-----------------------------------------------------------------------------
(* Properties                                                              *)

TypeOK ==
  /\ buffer \in [Buffers -> Buffer]
  /\ file \in [FileName -> Seq(Byte) \cup {NoFile}]
  /\ now \in 0 .. MaxTime
  /\ counter \in 0 .. COUNTER_MAX - 1
  /\ made \in 0 .. MaxNames
  /\ left \in SUBSET FileName
  /\ script \in [Buffers -> Script]

\* A buffer gives back what was written to it since it was cleared, whether it
\* has moved to a file meanwhile or not, and whatever other buffers, failed
\* writes and dead servers did to the files (Buffer.cpp:172); and the size that
\* limits bodies and that Content-Length announces is the size of what will be
\* read, although it is counted apart (FileHandler.cpp:188).
ContentIsWhatWasWritten ==
  \A b \in Buffers :
    buffer[b].life = "live" =>
      GetAllContent(b) = buffer[b].written /\ GetBufferSize(b) = Len(GetAllContent(b))

\* Two buffers never write to one file, nor does one that has failed come to
\* remove another's, for names of one second differ by the counter.
FilesAreDistinct ==
  \A b, c \in Buffers :
    b # c /\ buffer[b].path = buffer[c].path => buffer[b].path = NoFile

\* A temporary file goes with its content or with its buffer, failed writes
\* included; only a process that dies leaves files (FileHandlingTest.cpp:34).
NoFileOutlivesItsBuffer ==
  \A n \in FileName :
    file[n] # NoFile => n \in left \/ \E b \in Buffers : buffer[b].path = n

\* A script reads the body of its own request or is told that there is none:
\* its process may open the file when the server has moved on.
ScriptReadsItsBody ==
  \A b \in Buffers : ScriptInput(b) \in {script[b].body, <<>>}

\* "Creates a new stream pointer out of the buffer, be it string or file"
\* (Buffer.cpp:67).
StreamGivesTheBuffer ==
  \A b \in Buffers : buffer[b].streamed = "nothing" => GetAllContent(b) = <<>>

-----------------------------------------------------------------------------
(* The inductive invariant                                                 *)

\* A name of an earlier second, or one of the last made names of this second.
Recent(n) ==
  \/ n[1] < now
  \/ /\ n[1] = now
     /\ \/ n[2] < counter /\ counter - n[2] <= made
        \/ n[2] >= counter /\ counter + COUNTER_MAX - n[2] <= made

\* Where the bytes of a buffer are.
BufferInv(r) ==
  /\ r.life = "none" => r.path = NoFile
  /\ r.path # NoFile => Recent(r.path)
  /\ r.life = "live" /\ r.usingFile =>
       /\ r.path # NoFile
       /\ file[r.path] = r.written
       /\ r.total = Len(r.written)
  /\ r.life = "live" /\ ~r.usingFile => r.path = NoFile /\ r.mem = r.written

\* The file a script is to open holds its body as long as it exists: nobody
\* else has its name, and its own buffer is not written to.
ScriptInv(b) ==
  script[b].path # NoFile =>
    /\ Recent(script[b].path)
    /\ file[script[b].path] \in {script[b].body, NoFile}
    /\ \A c \in Buffers :
         buffer[c].path = script[b].path => c = b /\ buffer[b].sealed

\* What the properties above rest on, each buffer and script taken alone
\* and then against the others.
IInv ==
  /\ \A b \in Buffers : BufferInv(buffer[b]) /\ ScriptInv(b)
  /\ FilesAreDistinct
  /\ NoFileOutlivesItsBuffer
=============================================================================
