----------------------------- MODULE FileSource -----------------------------
(***************************************************************************)
(* How the watcher follows the keys file: src/keys_source/file_source.py   *)
(* `update_keys`, and `Watcher._update_user_keys`, the only writer of      *)
(* `user_keys`, which runs one update at a time.                           *)
(*                                                                         *)
(* The file may be edited between the look at its modification time and    *)
(* the reading, and while it is being written it may hold no keys or not   *)
(* be YAML at all.                                                         *)
(*                                                                         *)
(* Abstracted: every edit has a modification time of its own, the number   *)
(* of the edit, which also stands for the keys in it.                      *)
(***************************************************************************)
EXTENDS Naturals, Sequences

CONSTANT MaxEdits  \* bound: edits of the keys file

\* What an edit leaves in the file: keys, no keys, or something update_keys
\* fails on.
Kinds == {"keys", "empty", "broken"}

VARIABLES edits,     \* kind of each content the file has had
          modified,  \* keys_file_modification_time, 0 at first
          userKeys,  \* Watcher.user_keys: the edit they are from, 0 when empty
          pc,        \* next step of the running update
          mtime,     \* the modification time the running update has read
          content    \* the edit the running update has read

vars == <<edits, modified, userKeys, pc, mtime, content>>

Now == Len(edits)

Init ==
    /\ edits \in [1 .. 1 -> Kinds]
    /\ modified = 0
    /\ userKeys = 0
    /\ pc = "idle"
    /\ mtime = 0
    /\ content = 0

Edit(kind) ==
    /\ Now < MaxEdits
    /\ edits' = Append(edits, kind)
    /\ UNCHANGED <<modified, userKeys, pc, mtime, content>>

\* A head is handled and no update is running: nothing to do when the
\* modification time is the one remembered.
LookAtFile ==
    /\ pc = "idle"
    /\ mtime' = Now
    /\ pc' = IF modified = Now THEN "idle" ELSE "read"
    /\ UNCHANGED <<edits, modified, userKeys, content>>

\* Mutated form of TimeToRemember: looks at the file again.
TimeAfterwards == Now

\* Mutated form of TimeToRemember: a change is expected.
TimeNext == mtime + 1

\* `mtime`, as read before the file was opened.
TimeToRemember == mtime

\* The file is opened and parsed.
Read ==
    /\ pc = "read"
    /\ edits[Now] # "broken"
    /\ content' = Now
    /\ pc' = "remember"
    /\ UNCHANGED <<edits, modified, userKeys, mtime>>

\* The content is no list of keys: the update raises.
ReadFails ==
    /\ pc = "read"
    /\ edits[Now] = "broken"
    /\ pc' = "idle"
    /\ UNCHANGED <<edits, modified, userKeys, mtime, content>>

\* The time is remembered, and the watcher takes the keys if there are any.
Remember ==
    /\ pc = "remember"
    /\ modified' = TimeToRemember
    /\ userKeys' = IF edits[content] = "keys" THEN content ELSE userKeys
    /\ pc' = "idle"
    /\ UNCHANGED <<edits, mtime, content>>

Update == LookAtFile \/ Read \/ ReadFails \/ Remember

Next == (\E kind \in Kinds : Edit(kind)) \/ Update

Spec == Init /\ [][Next]_vars

\* Heads keep coming, and each starts an update unless one is running.
Fairness == WF_vars(Update)

-----------------------------------------------------------------------------
(* Properties.                                                             *)

\* Types; the time remembered is never ahead of the file: a change yet to come
\* is not taken for one already seen (`update_keys` stores the time it read).
TypeOK ==
    /\ edits \in Seq(Kinds) /\ Now \in 1 .. MaxEdits
    /\ modified \in 0 .. Now
    /\ userKeys \in 0 .. Now
    /\ pc \in {"idle", "read", "remember"}
    /\ mtime \in 0 .. Now
    /\ content \in 0 .. Now

\* When the modification time of the file is the one remembered, and no update
\* will look at it again, the watcher has the keys of the file: an edit during
\* an update, a half-written file or a failed update never leaves it with older
\* ones.  A file without keys is the exception: the watcher keeps what it had.
KeysOfFile ==
    pc = "idle" /\ modified = Now => userKeys = Now \/ edits[Now] = "empty"

\* Keys that stay in the file are the watcher's in the end, whatever was edited
\* during which update before.
FileTaken ==
    \A k \in 1 .. MaxEdits :
        <>[](Now = k /\ edits[k] = "keys") => <>[](userKeys = k)
=============================================================================
