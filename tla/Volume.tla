-------------------------------- MODULE Volume --------------------------------
(* The files of the probe's volume and the commands that change them: the line *)
(* editor, copy, move, rm and format. Any step may fail, or be the last one    *)
(* before the probe is unplugged; the next boot mounts what it finds.          *)
EXTENDS Naturals

CONSTANTS
    Texts,      \* whole texts a file can hold; neither Missing nor Cut is one
    Others      \* files besides the edited one and its backup

VARIABLES
    disk,       \* what each file holds
    formatted,  \* there is a filesystem on the volume
    mounted,    \* and it is mounted
    job,        \* the command in progress
    editing, lines, dirty,  \* cmd_edit is in its loop; its two locals
    old,        \* the last whole text the edited file was found or left with,
    moved,      \* the last move, until another command comes,
    excuses     \* and what went wrong since that the code does not see (ghosts)

vars == <<disk, formatted, mounted, job, editing, lines, dirty, old, moved, excuses>>

Missing == "missing"
Cut     == "cut"        \* empty, or only a part of what was meant
Path    == "path"
Backup  == "path.bak"
Names   == {Path, Backup} \cup Others

\* What the code does not see: a save begins on a file that is not whole; os.stat()
\* of a file that is there fails, so nothing is copied aside; a full volume drops
\* what is copied; a boot cannot mount the volume, and formats it.
Excuses == {"half", "unseen", "dropped", "wiped"}

Idle   == [step |-> "none"]
NoMove == [text |-> Missing]

Copying(src, dst, why) == [step |-> "open", src |-> src, dst |-> dst, why |-> why]

At(step) == job.step = step

fs     == <<formatted, mounted>>
editor == <<editing, lines, dirty>>
ghosts == <<old, moved, excuses>>

Whole(name) == disk[name] \in Texts

Init ==
    /\ \E text \in Texts :
          disk = [n \in Names |-> IF n = Backup THEN Missing ELSE text]
    /\ formatted = TRUE /\ mounted = TRUE /\ job = Idle
    /\ editing = FALSE /\ lines = Missing /\ dirty = FALSE
    /\ old = Missing /\ moved = NoMove /\ excuses = {}

\* A command is over; the editor's loop survives an error of one of its own.
Ends == job' = Idle /\ UNCHANGED <<disk, fs, editor, ghosts>>

\* What a write leaves. A full volume drops it, or the rest of it, without a word.
Landed(text) == {text, Cut}

--------------------------------------------------------------------------------
(* copy_file() *)

\* The source is opened, then the destination, which empties it.
CopyOpens ==
    /\ At("open") /\ mounted /\ disk[job.src] # Missing
    /\ disk' = [disk EXCEPT ![job.dst] = Cut]
    /\ job' = [job EXCEPT !.step = "chunks"]
    /\ UNCHANGED <<fs, editor, ghosts>>

\* What follows a copy: nothing, the removal of the source, or the new text.
Follows == [copy |-> "done", move |-> "remove", save |-> "write"]

\* The chunks are written and both files are closed.
CopyRuns ==
    /\ At("chunks")
    /\ \E text \in Landed(disk[job.src]) :
          /\ disk' = [disk EXCEPT ![job.dst] = text]
          /\ excuses' = IF text = disk[job.src] THEN excuses ELSE excuses \cup {"dropped"}
    /\ job' = [job EXCEPT !.step = Follows[job.why]]
    /\ UNCHANGED <<fs, editor, old, moved>>

\* cmd_move(): the source goes last.
MoveRemoves ==
    /\ At("remove")
    /\ disk' = [disk EXCEPT ![job.src] = Missing]
    /\ job' = Idle /\ UNCHANGED <<fs, editor, ghosts>>

--------------------------------------------------------------------------------
(* The editor *)

InEditor == At("none") /\ editing

\* _load(): the file's lines, or none if os.stat() fails, which is taken for a
\* new file.
EditLoads ==
    /\ At("none") /\ ~editing
    /\ editing' = TRUE /\ dirty' = FALSE
    /\ \/ mounted /\ disk[Path] # Missing /\ lines' = disk[Path]
       \/ lines' = Cut
    /\ UNCHANGED <<disk, fs, job, ghosts>>

\* a, i, e, r, d: lines are added, replaced and deleted.
EditChanges ==
    /\ InEditor
    /\ lines' \in Texts /\ dirty' = TRUE
    /\ UNCHANGED <<disk, fs, job, editing, ghosts>>

\* What a save begins on is the version to keep, if it is whole.
Noted(unseen) ==
    IF mounted /\ Whole(Path)
    THEN old' = disk[Path] /\ excuses' = unseen
    ELSE /\ UNCHANGED old
         /\ excuses' = IF unseen = {} THEN excuses \cup {"half"} ELSE excuses

\* mutant of SaveBegins: a file that is there is written over, not copied aside
SaveBeginsInPlace ==
    /\ InEditor /\ job' = [step |-> "write"]
    /\ Noted({}) /\ moved' = NoMove
    /\ UNCHANGED <<disk, fs, editor>>

\* _save(): a file that is there is copied aside first. Any error of os.stat() is
\* taken to mean that there is none.
SaveBegins ==
    /\ InEditor
    /\ \/ mounted /\ disk[Path] # Missing /\ Noted({}) /\ job' = Copying(Path, Backup, "save")
       \/ Noted({"unseen"}) /\ job' = [step |-> "write"]
    /\ moved' = NoMove
    /\ UNCHANGED <<disk, fs, editor>>

SaveOpens ==
    /\ At("write") /\ mounted
    /\ disk' = [disk EXCEPT ![Path] = Cut]
    /\ job' = [step |-> "text"]
    /\ UNCHANGED <<fs, editor, ghosts>>

\* The text is written, and the lines are clean, whether or not it landed; if it
\* did, it is the version to keep.
SaveWrites ==
    /\ At("text")
    /\ \E text \in Landed(lines) :
          /\ disk' = [disk EXCEPT ![Path] = text]
          /\ old' = IF text \in Texts THEN text ELSE old
          /\ excuses' = IF text \in Texts THEN {} ELSE excuses
    /\ dirty' = FALSE /\ job' = Idle
    /\ UNCHANGED <<fs, editing, lines, moved>>

\* An error on the way is reported; the lines stay what they are.
SaveFails ==
    /\ job.step \in {"open", "chunks", "write", "text"} /\ editing
    /\ Ends

\* `q` and the end of input leave if the lines are clean; `q!` leaves.
EditQuits ==
    /\ InEditor
    /\ editing' = FALSE /\ lines' = Missing /\ dirty' = FALSE
    /\ UNCHANGED <<disk, fs, job, ghosts>>

--------------------------------------------------------------------------------
(* The other commands *)

AtPrompt == At("none") /\ ~editing

\* Another command than a save: the operator's own doing from here on.
Forgets == old' = Missing /\ excuses' = {}

\* A file is not copied onto itself: see the README.
Copies ==
    /\ AtPrompt /\ Forgets /\ moved' = NoMove
    /\ \E src \in Names : \E dst \in Names \ {src} : job' = Copying(src, dst, "copy")
    /\ UNCHANGED <<disk, fs, editor>>

Moves ==
    /\ AtPrompt /\ mounted /\ Forgets
    /\ \E src \in Names : \E dst \in Names \ {src} :
          /\ disk[src] # Missing
          /\ job' = Copying(src, dst, "move")
          /\ moved' = [text |-> disk[src], src |-> src, dst |-> dst]
    /\ UNCHANGED <<disk, fs, editor>>

\* copy_file() raises, or the copy is done, or the source cannot be removed.
CopyEnds == job.step \in {"open", "chunks", "remove", "done"} /\ ~editing /\ Ends

Removes ==
    /\ AtPrompt /\ mounted /\ Forgets /\ moved' = NoMove
    /\ \E name \in Names : disk' = [disk EXCEPT ![name] = Missing]
    /\ UNCHANGED <<fs, job, editor>>

Erased == [n \in Names |-> Missing]

\* `format yes`: out of the volume, a fresh filesystem, and back in. What is
\* already unmounted is as good.
FormatBegins ==
    /\ AtPrompt /\ job' = [step |-> "mkfs"]
    /\ mounted' = FALSE
    /\ Forgets /\ moved' = NoMove
    /\ UNCHANGED <<disk, formatted, editor>>

\* Formatting erases as it goes, and may not get to its end.
FormatErases ==
    /\ At("mkfs")
    /\ disk' = Erased
    /\ \/ formatted' = TRUE  /\ job' = [step |-> "mount"]
       \/ formatted' = FALSE /\ job' = Idle
    /\ UNCHANGED <<mounted, editor, ghosts>>

FormatMounts ==
    /\ At("mount") /\ mounted' \in BOOLEAN /\ job' = Idle
    /\ UNCHANGED <<disk, formatted, editor, ghosts>>

--------------------------------------------------------------------------------
(* Unplugged, and booted again *)

\* mount_storage(): a volume that does not mount, for whatever reason, is formatted
\* and mounted again. Formatting may do nothing (the port's mkfs() fails outright),
\* stop half way, or succeed, and the second mount may fail as well.
MountStorage ==
    \/ formatted /\ mounted' = TRUE /\ UNCHANGED <<disk, formatted, excuses>>
    \/ mounted' = FALSE /\ UNCHANGED <<disk, formatted, excuses>>
    \/ /\ disk' = Erased /\ excuses' = excuses \cup {"wiped"}
       /\ formatted' \in BOOLEAN /\ mounted' \in {FALSE, formatted'}

Reboots ==
    /\ job' = Idle /\ editing' = FALSE /\ lines' = Missing /\ dirty' = FALSE
    /\ MountStorage
    /\ UNCHANGED <<old, moved>>

Next ==
    \/ CopyOpens \/ CopyRuns \/ MoveRemoves \/ CopyEnds
    \/ EditLoads \/ EditChanges \/ EditQuits
    \/ SaveBegins \/ SaveOpens \/ SaveWrites \/ SaveFails
    \/ Copies \/ Moves \/ Removes
    \/ FormatBegins \/ FormatErases \/ FormatMounts \/ Reboots

Spec == Init /\ [][Next]_vars

--------------------------------------------------------------------------------
(* Properties *)

OnVolume(text) == text \in {disk[Path], disk[Backup]}

\* Wherever a save fails or is cut off, and however often the probe is rebooted
\* then, the last whole text is there in full, in the file or in its backup; a full
\* volume that drops the new text does not change that. It takes one of Excuses to
\* lose it. (cmd_edit.py _save, _boot.py mount_storage)
OneVersionSurvives == old # Missing /\ excuses = {} => OnVolume(old)

\* The same after any number of saves that failed. It does not hold: the second
\* `w` copies the half-written file over the backup. (cmd_edit.py, help of `edit`)
OldVersionIsLeft == old # Missing /\ excuses \subseteq {"half"} => OnVolume(old)

\* Wherever a move to another name fails or is cut off, the text is still there
\* in full under one of the two names, unless a full volume dropped the copy or a
\* boot formatted the volume. (cmd_files.py cmd_move, copy_file)
MoveKeepsTheFile ==
    moved # NoMove /\ excuses = {} => moved.text \in {disk[moved.src], disk[moved.dst]}

\* No save and no move of a whole file loses it, but for the named excuses.
FilesSurvive == OneVersionSurvives /\ MoveKeepsTheFile

\* Changed lines become clean by a save that got through to the end, and by nothing
\* else while the editor runs. If the volume dropped what it wrote they become clean
\* all the same, but the whole text before is in the backup then. (cmd_edit.py
\* cmd_edit, _apply)
EditsAreKept ==
    [][editing' /\ dirty /\ ~dirty' =>
          \/ disk'[Path] = lines
          \/ disk'[Path] = Cut /\ (old # Missing /\ excuses = {} => disk'[Backup] = old)]_vars

\* A volume in use has a filesystem: a format is never run, nor left half done,
\* under a mount, and a boot puts right what was. (cmd_files.py cmd_format,
\* _boot.py mount_storage)
MountedIsFormatted == mounted => formatted
===============================================================================
