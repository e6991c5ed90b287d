----------------------------- MODULE FilePrograms -----------------------------
(***************************************************************************)
(* The programs of chapter 19 that write a file in several steps, with a   *)
(* process that reads it at any moment, and a crash of the writer or a     *)
(* loss of power after any of its steps.  A text is written in two parts.  *)
(***************************************************************************)
EXTENDS Calls

LOCAL Text(v) == <<v, v>>
LOCAL None == <<"absent">>

\* The loop over write() that goes on after a short write or EINTR; k on an error.
WriteFull(f, v, k) == <<WriteTo(f, v, k), WriteTo(f, v, k - 1)>>
LOCAL Written(f, v) == <<WriteTo(f, v, 1), WriteTo(f, v, 1)>>

\* A reader of config: all of one version or of the other at any time, and once a
\* save has returned true no version older than that.
LOCAL Reader ==
  <<Test("saved", 2, 6), Test("saved", 1, 3),
    Look("config", {None, Text(1), Text(2)}), Goto(4),
    Look("config", {Text(1), Text(2)}), Goto(2),
    Look("config", {Text(2)})>>
LOCAL SavedTwice(saves, crash) == [main |-> saves, reader |-> Reader, crash |-> crash]

\* The writer is killed at any moment; then the power may fail as well.
LOCAL Killed == <<KillChild("main")>>
LOCAL PowerLoss == Killed \o <<LosePower>>

\* Write to a temporary file, fsync() before the rename and of the directory after
\* it; false, with the temporary file removed, after an error.
DurableSaveEarly(v) ==                                      \* a wrong form
  <<Create("tmp", 9)>> \o WriteFull("tmp", v, 7)
  \o <<Rename("tmp", "config"), Fsync("config", 5), FsyncDir, Put("saved", v), Goto(2), Unlink("tmp")>>
DurableSave(v) ==
  <<Create("tmp", 9)>> \o WriteFull("tmp", v, 7)
  \o <<Fsync("tmp", 5), Rename("tmp", "config"), FsyncDir, Put("saved", v), Goto(2), Unlink("tmp")>>
DurableWrite == SavedTwice(DurableSave(1) \o DurableSave(2), PowerLoss)

\* The same without an answer to a failing fsync(), which is taken not to fail; after
\* an error of write() the temporary file stays, for the next call to empty.
CriticalSave(v) ==
  <<Create("tmp", 7)>> \o WriteFull("tmp", v, 6)
  \o <<Fsync("tmp", 1), Rename("tmp", "config"), FsyncDir, Put("saved", v)>>
CriticalWrite == SavedTwice(CriticalSave(1) \o CriticalSave(2), PowerLoss)

\* Without fsync(), and with writes whose failure nobody looks at and that are taken
\* not to fail: whole for the readers, though not if the power is lost.  An
\* open() that fails ends the program.
AtomicSave(v) ==
  <<Create("tmp", 10)>> \o Written("tmp", v) \o <<Rename("tmp", "config"), Put("saved", v)>>
AtomicWrite == SavedTwice(AtomicSave(1) \o AtomicSave(2), Killed)

\* A file for a secret is created or refused, never opened: the second call leaves
\* what the first has written.
SecretWrite(v, ok) ==
  <<CreateNew("secret", 7)>> \o WriteFull("secret", v, 5)
  \o <<Fsync("secret", 1), Put(ok, 1), Goto(2), Unlink("secret")>>
SecretFile ==
  [main |-> SecretWrite(1, "first") \o SecretWrite(2, "again")
            \o <<Test("first", 1, 2), Goto(3), Look("secret", {Text(1)}), Check("again", 0)>>]

\* read() and write() until the end of the source; both files are removed.
CopyLoop == <<Look("src", {Text(1)})>> \o WriteFull("dst", 1, 4)
CopyFile ==
  [main |-> <<Create("src", 1)>> \o Written("src", 1) \o <<Create("dst", 7)>> \o CopyLoop
            \o <<Put("ok", 1), Look("dst", {Text(1)}), Unlink("dst"), Unlink("src")>>]

\* One write() to a first file, write_full() to a second.
WriteFiles ==
  [main |-> <<Create("output", 20), WriteTo("output", 1, 1), Create("data", 20)>>
            \o WriteFull("data", 1, 3) \o <<Look("data", {Text(1)}), Unlink("output"), Unlink("data")>>]

Files ==
  [durable |-> DurableWrite, critical |-> CriticalWrite, atomicWrite |-> AtomicWrite,
   secret |-> SecretFile, copy |-> CopyFile,
   write |-> WriteFiles]
=============================================================================
