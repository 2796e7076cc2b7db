------------------------------ MODULE LogFile ------------------------------
(***************************************************************************)
(* The log file and its rotation (internal/rotate/file_writer.go), and the *)
(* change of the log's writer at a start or reload (logger/logger.go): the *)
(* new writer opens the file before the old one is closed, and Close       *)
(* rotates, that is, renames the file under the new writer's feet.         *)
(*                                                                         *)
(* A file is a number and holds a set of lines; an archive's name is the   *)
(* second it was made in.  Lines have the same length, so sizes are        *)
(* numbers of lines.  A rotation's rename and purge are one step.          *)
(***************************************************************************)
EXTENDS Integers, FiniteSets

CONSTANTS
    MaxSize, MaxArchives,             \* rotation settings, in lines and files
    MaxLines, MaxSeconds, MaxWriters  \* bounds

\* The rotation_max_archives that removes none.
KeepAll == -1

ASSUME LogFileConstants ==
    /\ MaxSize \in Nat \ {0} /\ MaxArchives \in Nat \union {KeepAll}
    /\ MaxLines \in Nat /\ MaxSeconds \in Nat /\ MaxWriters \in Nat \ {0}

File == 1 .. (MaxLines + 2 * MaxWriters)
NoFile == 0
Writer == 1 .. MaxWriters

VARIABLES
    second,
    content,     \* lines of each file
    old,         \* files not written to for longer than the rotation interval
    path,        \* the file the log's name stands for, or NoFile
    archive,     \* the files the archives' names stand for
    file,        \* each writer's current file; NoFile once closed or failed
    bytes,       \* each writer's count
    writing,     \* each writer: "none", "stderr", "plain" (no rotation),
                 \* "idle", "full", "reopen" or "closed"
    output,      \* the writer of package log
    setup,       \* SetupLogging: "none", "open", "opened" or "switch"
    logged,      \* number of lines logged
    overlapped   \* writers opened beside a rotating one, until they rotate
                 \* in use

logVars == <<second, content, old, path, archive, file, bytes, writing, output,
             setup, logged, overlapped>>

\* The first writer is stderr: SetupLogging with an empty configuration.
LogInit ==
    /\ second = 0 /\ content = [f \in File |-> {}] /\ old = {}
    /\ path = NoFile /\ archive = [s \in 0 .. MaxSeconds |-> NoFile]
    /\ file = [w \in Writer |-> NoFile] /\ bytes = [w \in Writer |-> 0]
    /\ writing = [w \in Writer |-> IF w = 1 THEN "stderr" ELSE "none"]
    /\ output = 1 /\ setup = "none" /\ logged = 0
    /\ overlapped = {}

SecondPasses ==
    /\ second < MaxSeconds /\ second' = second + 1
    /\ UNCHANGED <<content, old, path, archive, file, bytes, writing, output,
                   setup, logged, overlapped>>

Archives(a) == {s \in DOMAIN a : a[s] # NoFile}

Full(n, expired) == expired \/ n >= MaxSize

\* Write: a closed writer returns an error and the line is lost; otherwise
\* rotateIfNeeded looks at the size and at the time, which may have come.
WriteLine(expired) ==
    /\ writing[output] \in {"stderr", "plain", "idle", "closed"}
    /\ logged < MaxLines /\ logged' = logged + 1
    /\ LET f == file[output]
       IN IF f = NoFile
          THEN UNCHANGED <<content, old, bytes, writing>>
          ELSE /\ content' = [content EXCEPT ![f] = @ \union {logged + 1}]
               /\ old' = old \ {f}
               /\ bytes' = [bytes EXCEPT ![output] = @ + 1]
               /\ writing' = [writing EXCEPT ![output] =
                     IF @ = "idle" /\ Full(bytes[output] + 1, expired) THEN "full"
                                                                       ELSE @]
    /\ UNCHANGED <<second, path, archive, file, output, setup, overlapped>>

\* purgeArchivesIfNeeded: all but the MaxArchives newest, by their names.
Purged(a) ==
    LET excess == Cardinality(Archives(a)) - MaxArchives
    IN IF MaxArchives = KeepAll THEN {}
       ELSE {s \in Archives(a) : Cardinality({u \in Archives(a) : u < s}) < excess}

\* The first removal that fails ends the purge.
PurgeOf(a) ==
    \E upTo \in 0 .. (MaxSeconds + 1) :
        LET gone == {s \in Purged(a) : s < upTo}
        IN archive' = [s \in DOMAIN a |-> IF s \in gone THEN NoFile ELSE a[s]]

\* os.Rename puts the file in place of an archive of the same second.
Rename ==
    /\ path # NoFile
    /\ PurgeOf([archive EXCEPT ![second] = path])
    /\ path' = NoFile

\* os.Rename fails, for one because there is no file of that name.
RenameFails == UNCHANGED <<path, archive>>

\* Mutant: the renamed file goes on being written.
RotateKeepsOpen(w, renamed) ==
    /\ writing[w] = "full"
    /\ IF renamed THEN Rename ELSE RenameFails
    /\ writing' = [writing EXCEPT ![w] = "idle"]
    /\ UNCHANGED <<second, content, old, file, bytes, output, setup, logged,
                   overlapped>>

\* rotate by rotateIfNeeded; its errors are ignored.
Rotate(w, renamed) ==
    /\ writing[w] = "full"
    /\ IF renamed THEN Rename ELSE RenameFails
    /\ writing' = [writing EXCEPT ![w] = "reopen"]
    /\ overlapped' = IF w = output THEN overlapped \ {w} ELSE overlapped
    /\ UNCHANGED <<second, content, old, file, bytes, output, setup, logged>>

\* The file of the log's name, which is made if there is none.
Opened ==
    IF path # NoFile THEN path
    ELSE CHOOSE g \in File : /\ content[g] = {}
                             /\ \A v \in Writer : file[v] # g
                             /\ \A s \in DOMAIN archive : archive[s] # g

\* openFile: the files grown old are aged.
OpenFile(w, aged) ==
    /\ path' = Opened
    /\ file' = [file EXCEPT ![w] = Opened]
    /\ old' = IF path = NoFile THEN aged \ {Opened} ELSE aged

\* Mutant: the count goes on from the file before.
OpenCurrentKeepsCount(w, aged) ==
    /\ OpenFile(w, aged)
    /\ bytes' = bytes
    /\ writing' = [writing EXCEPT ![w] =
                      IF Full(bytes[w], Opened \in old') THEN "full" ELSE "idle"]

\* openCurrent opens the file and rotates again if it is too large or too old.
OpenCurrent(w, aged) ==
    LET n == Cardinality(content[Opened])
    IN /\ OpenFile(w, aged)
       /\ bytes' = [bytes EXCEPT ![w] = n]
       /\ writing' = [writing EXCEPT ![w] =
                         IF Full(n, Opened \in old') THEN "full" ELSE "idle"]

Reopen(w) ==
    /\ writing[w] = "reopen"
    /\ OpenCurrent(w, old)
    /\ UNCHANGED <<second, content, archive, output, setup, logged, overlapped>>

\* current is nil, and stays so.
ReopenFails(w) ==
    /\ writing[w] = "reopen"
    /\ writing' = [writing EXCEPT ![w] = "closed"]
    /\ file' = [file EXCEPT ![w] = NoFile]
    /\ UNCHANGED <<second, content, old, path, archive, bytes, output, setup,
                   logged, overlapped>>

-----------------------------------------------------------------------------
\* SetupLogging of a start or a reload, for the same log file.

\* Rotating: every log line of the process waits for the writer's mutex.
Rotating == writing[output] \in {"full", "reopen"}

newWriter == output + 1
SetupBegins == setup = "none" /\ output < MaxWriters

\* The writer in use is one whose Close will rename the file.
OpenedBeside ==
    overlapped' = IF writing[output] \in {"stderr", "plain"} THEN overlapped
                  ELSE overlapped \union {newWriter}

\* NewFileWriter with rotation; the file may have become old, unless it is
\* just being written to.
NewFileWriter(expired) ==
    /\ SetupBegins
    /\ expired => path # NoFile /\ ~Rotating
    /\ OpenCurrent(newWriter, IF expired THEN old \union {path} ELSE old)
    /\ OpenedBeside
    /\ setup' = "open"
    /\ UNCHANGED <<second, content, archive, output, logged>>

\* NewFileWriter without: the open file is the writer.
NewPlainWriter ==
    /\ SetupBegins
    /\ OpenFile(newWriter, old)
    /\ writing' = [writing EXCEPT ![newWriter] = "plain"]
    /\ OpenedBeside
    /\ setup' = "opened"
    /\ UNCHANGED <<second, content, archive, bytes, output, logged>>

\* The file cannot be opened: stderr is used.
NewFileWriterFails ==
    /\ SetupBegins
    /\ writing' = [writing EXCEPT ![newWriter] = "stderr"]
    /\ setup' = "opened"
    /\ UNCHANGED <<second, content, old, path, archive, file, bytes, output,
                   logged, overlapped>>

\* NewFileWriter returns from the rotations of openCurrent; after an error
\* stderr is used.
OpenResult ==
    /\ setup = "open" /\ writing[newWriter] \in {"idle", "closed"}
    /\ setup' = "opened"
    /\ writing' = [writing EXCEPT ![newWriter] = IF @ = "closed" THEN "stderr" ELSE @]
    /\ UNCHANGED <<second, content, old, path, archive, file, bytes, output, logged,
                   overlapped>>

\* Close of the old writer: a rotating one renames, without opening again.
CloseOld(renamed) ==
    /\ setup = "opened" /\ writing[output] \in {"plain", "idle", "closed", "stderr"}
    /\ setup' = "switch"
    /\ IF writing[output] = "idle" /\ renamed THEN Rename ELSE RenameFails
    /\ writing' = [writing EXCEPT ![output] = IF @ = "stderr" THEN @ ELSE "closed"]
    /\ file' = [file EXCEPT ![output] = NoFile]
    /\ UNCHANGED <<second, content, old, bytes, output, logged, overlapped>>

SetOutput ==
    /\ setup = "switch"
    /\ output' = newWriter /\ setup' = "none"
    /\ UNCHANGED <<second, content, old, path, archive, file, bytes, writing, logged,
                   overlapped>>

LogNext ==
    \/ SecondPasses \/ NewPlainWriter \/ NewFileWriterFails \/ OpenResult
    \/ SetOutput
    \/ \E b \in BOOLEAN : WriteLine(b) \/ NewFileWriter(b) \/ CloseOld(b)
    \/ \E w \in Writer : Reopen(w) \/ ReopenFails(w) \/ \E b \in BOOLEAN : Rotate(w, b)

\* A rotation that has begun goes on; nothing obliges a rename to succeed.
LogFairness ==
    \A w \in Writer : /\ WF_logVars(Reopen(w) \/ ReopenFails(w))
                      /\ WF_logVars(\E b \in BOOLEAN : Rotate(w, b))

LogSpec == LogInit /\ [][LogNext]_logVars /\ LogFairness

-----------------------------------------------------------------------------
\* A writer writes to the file that has the log's name.  The exception is the
\* writer of a reload, which was opened before the old writer's Close renamed
\* the file: it writes to an archive until its first rotation, if it has one.
LogsAtPath ==
    \A w \in Writer : writing[w] \in {"plain", "idle"} /\ w \notin overlapped
                          => file[w] = path \/ setup # "none"

\* rotateIfNeeded: "Ignore rotation errors and keep the log open".  Whatever
\* becomes of the rename, a rotation ends.
KeepsLogOpen == Rotating ~> ~Rotating

\* From some time on, no rename fails that has a file to rename.
RenamesSucceed ==
    <>[][\A w \in Writer : writing[w] = "full" /\ writing'[w] = "reopen"
                              => path' = NoFile]_logVars

\* If renames succeed, a rotation ends, whatever the size and age of the files
\* it opens and closes.
RotationEnds == RenamesSucceed => (Rotating ~> ~Rotating)
=============================================================================
