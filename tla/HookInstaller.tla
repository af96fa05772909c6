---------------------------- MODULE HookInstaller ----------------------------
(* hooks/install.mjs: the command that wires this project's hooks into a
   settings file that belongs to somebody else, and takes them out again.
   A run reads the file, computes the new settings, compares, copies a backup,
   writes a temporary sibling and renames it over the file; the file's owner,
   another run and a crash may come between any two of those steps.

   A command line is an Option (the two values a generated command varies by);
   a command somebody else wrote is in Foreign; one that aims at the endpoint
   in no shape ever generated is in Ambiguous.  What a path holds is a record:
   its kind, whether its "hooks" are an object, are none or are something else,
   the lists of its events, everything else it holds, and whether its text is
   laid out the way the installer serialises it. *)
EXTENDS Naturals, Sequences, FiniteSets, Selection

CONSTANTS Events, Wired, Options, Foreign, Ambiguous,
          Runs,           \* process ids, each used again after its run ended
          Written,        \* the contents the owner writes
          Milliseconds,   \* the times a backup may be taken at
          BackupNames,    \* BACKUP_NAME_ATTEMPTS, cut down
          MaxRuns,        \* bound: runs of a behaviour
          MaxEdits        \* bound: writes of the file by anybody else

Settings(shape, hooks, rest, own) ==
  [kind |-> "settings", shape |-> shape, hooks |-> hooks, rest |-> rest, own |-> own]
Bare(kind) == [Settings("none", << >>, "none", TRUE) EXCEPT !.kind = kind]
NoFile == Bare("absent")        \* no such file
Torn == Bare("torn")            \* a prefix of somebody's text
NotJson == Bare("not json")
Planted == Bare("a directory")  \* at the temporary name, where no unlink removes it
Empty == Settings("none", << >>, "none", TRUE)
NoList == << <<"no list">> >>   \* an event whose entries are no array

\* What the constants must be.
Configured ==
  /\ Wired \subseteq Events /\ Options # {}
  /\ Options \cap (Foreign \cup Ambiguous) = {} /\ Foreign \cap Ambiguous = {}
  /\ BackupNames \in Nat \ {0} /\ {MaxRuns, MaxEdits} \subseteq Nat

VARIABLES
  file,      \* what the path leads to
  temp,      \* the temporary sibling of each process
  backups,   \* [name -> content], a name is <<millisecond, attempt>>
  run,       \* the state of each process
  runs,      \* runs so far
  edits,     \* writes by anybody else so far
  replaced   \* contents a run put aside although nobody had touched them

vars == <<file, temp, backups, run, runs, edits, replaced>>

IsSettings(c) == c.kind = "settings"

-----------------------------------------------------------------------------
(* What the settings become. *)

IsOurs(command) == command \in Options

\* pruneEventEntries: our commands leave their entries, an entry that held
\* nothing else leaves the list, everything foreign stays in its place.
ForeignHooks(entry) == {j \in DOMAIN entry : ~IsOurs(entry[j])}
Surviving(entries) ==
  {i \in DOMAIN entries : entries[i] = << >> \/ ForeignHooks(entries[i]) # {}}
PruneEventEntries(entries) ==
  LET kept == Kept(entries, Surviving(entries))
  IN  [k \in DOMAIN kept |-> Kept(kept[k], ForeignHooks(kept[k]))]

\* Its refusals: a list that is none, or a command nobody can place.
Refuses(entries) ==
  \/ entries = NoList
  \/ \E i \in DOMAIN entries : \E j \in DOMAIN entries[i] : entries[i][j] \in Ambiguous

EntriesOf(settings, event) ==
  IF event \in DOMAIN settings.hooks THEN settings.hooks[event] ELSE << >>

\* mergeHooksIntoSettings, with the entries of buildHooksConfig.
MergeRefused(settings) ==
  settings.shape = "other" \/ \E e \in Wired : Refuses(EntriesOf(settings, e))
MergeHooksIntoSettings(settings, option) ==
  [settings EXCEPT !.own = TRUE, !.shape = "object",
     !.hooks = [e \in Wired \cup DOMAIN settings.hooks |->
                  IF e \in Wired
                  THEN Append(PruneEventEntries(EntriesOf(settings, e)), <<option>>)
                  ELSE settings.hooks[e]]]

\* A slip in what follows: an entry that holds one of our commands goes whole, a mutant
RemoveWholeEntries(settings) ==
  [settings EXCEPT !.own = TRUE,
     !.hooks = [e \in DOMAIN settings.hooks |->
        LET entries == settings.hooks[e]
        IN  Kept(entries, {i \in DOMAIN entries :
                             ForeignHooks(entries[i]) = DOMAIN entries[i]})]]

\* removeAgenthropicHooks: a list this removal emptied goes, and so does a
\* hooks object it emptied; what was empty before stays.
RemoveRefused(settings) ==
  \E e \in DOMAIN settings.hooks :
    settings.hooks[e] # NoList /\ Refuses(settings.hooks[e])
Emptied(entries) == entries # << >> /\ PruneEventEntries(entries) = << >>
RemoveAgenthropicHooks(settings) ==
  LET left == {e \in DOMAIN settings.hooks : ~Emptied(settings.hooks[e])}
      droppedAnEvent == left # DOMAIN settings.hooks
  IN  [settings EXCEPT !.own = TRUE,
         !.shape = IF left = {} /\ droppedAnEvent THEN "none" ELSE @,
         !.hooks = [e \in left |-> PruneEventEntries(settings.hooks[e])]]

\* runInstall's transform of what a run read.
Refused(r) == IF r.remove THEN RemoveRefused(r.read) ELSE MergeRefused(r.read)
Transform(r) ==
  IF r.remove THEN RemoveAgenthropicHooks(r.read) ELSE MergeHooksIntoSettings(r.read, r.option)

-----------------------------------------------------------------------------
(* One run of the command. *)

Idle == [pc |-> "idle", remove |-> FALSE, option |-> CHOOSE o \in Options : TRUE,
         read |-> NoFile, existed |-> FALSE, result |-> NoFile, alone |-> FALSE]

Init ==
  /\ file \in Written \cup {NoFile}
  /\ temp \in {[p \in Runs |-> IF p \in planted THEN Planted ELSE NoFile] :
                 planted \in {Q \in SUBSET Runs : Cardinality(Q) <= 1}}
  /\ backups = << >>
  /\ run = [p \in Runs |-> Idle]
  /\ runs = 0 /\ edits = 0
  /\ replaced = {}

At(p, pc) == run[p].pc = pc
Step(p, pc) == run' = [run EXCEPT ![p].pc = pc]
End(p) == run' = [run EXCEPT ![p] = Idle]

\* parseArgs and readExistingSettings: a file that is not JSON ends the run.
Start(p, remove, option) ==
  /\ At(p, "idle") /\ runs < MaxRuns
  /\ runs' = runs + 1
  /\ run' = IF file.kind \in {"torn", "not json"} THEN run
            ELSE [run EXCEPT ![p] =
                   [Idle EXCEPT !.pc = "read", !.remove = remove, !.option = option,
                                !.read = IF file = NoFile THEN Empty ELSE file]]
  /\ UNCHANGED <<file, temp, backups, edits, replaced>>

\* The second look (existsSync and the current text) and every early return:
\* refused, absent, nothing to remove, unchanged.  A dry run ends here as well.
SameMeaning(c, d) ==
  IsSettings(c) /\ IsSettings(d) /\ [c EXCEPT !.own = d.own] = d
NothingToDo(r) ==
  \/ Refused(r)
  \/ r.remove /\ (file = NoFile \/ SameMeaning(Transform(r), r.read))
  \/ file = Transform(r)
  \/ file # NoFile /\ SameMeaning(Transform(r), r.read)

Compare(p) ==
  /\ At(p, "read")
  /\ run' = IF NothingToDo(run[p]) THEN [run EXCEPT ![p] = Idle]
            ELSE [run EXCEPT ![p].pc = IF file = NoFile THEN "write" ELSE "backup",
                             ![p].existed = file # NoFile,
                             ![p].result = Transform(run[p]),
                             ![p].alone = TRUE]
  /\ UNCHANGED <<file, temp, backups, runs, edits, replaced>>

DryRun(p) ==
  /\ At(p, "read")
  /\ End(p)
  /\ UNCHANGED <<file, temp, backups, runs, edits, replaced>>

\* A slip in what follows: the plain copy, onto whatever holds the name, a mutant
BackupNameTaken(t) == <<t, 0>>

\* copyToFreeBackupName: the first name of this millisecond that is free; a
\* file that vanished, or a hundred taken names, end the run.
FreeNames(t) == {n \in 0..(BackupNames - 1) : <<t, n>> \notin DOMAIN backups}
BackupName(t) == <<t, CHOOSE n \in FreeNames(t) : \A m \in FreeNames(t) : n <= m>>

Backup(p, t) ==
  /\ At(p, "backup")
  /\ IF file = NoFile \/ FreeNames(t) = {}
     THEN End(p) /\ UNCHANGED backups
     ELSE /\ backups' = [n \in DOMAIN backups \cup {BackupName(t)} |->
                           IF n = BackupName(t) THEN file ELSE backups[n]]
          /\ run' = [run EXCEPT ![p].pc = "write", ![p].alone = TRUE]
  /\ UNCHANGED <<file, temp, runs, edits, replaced>>

\* resolveWriteTarget follows a file that was there to where it is now;
\* writeTempExclusively opens the sibling: a stale one of a crashed run with
\* the same process id is unlinked first, a planted directory is not.
Open(p) ==
  /\ At(p, "write") /\ temp[p] # Planted
  /\ run[p].existed => file # NoFile
  /\ temp' = [temp EXCEPT ![p] = Torn]
  /\ Step(p, "fill")
  /\ UNCHANGED <<file, backups, runs, edits, replaced>>

Fill(p) ==
  /\ At(p, "fill")
  /\ temp' = [temp EXCEPT ![p] = run[p].result]
  /\ Step(p, "rename")
  /\ UNCHANGED <<file, backups, runs, edits, replaced>>

\* Any of the writes may fail: the cleanup removes the sibling if it can.
WriteFails(p) ==
  /\ run[p].pc \in {"write", "fill", "rename"}
  /\ temp' = IF temp[p] = Planted THEN temp ELSE [temp EXCEPT ![p] = NoFile]
  /\ End(p)
  /\ UNCHANGED <<file, backups, runs, edits, replaced>>

\* Somebody else's write since the copy: what the rename replaces then was
\* never copied.
NoLongerAlone(states) == [q \in Runs |-> [states[q] EXCEPT !.alone = FALSE]]

Rename(p) ==
  /\ At(p, "rename")
  /\ file' = temp[p]
  /\ temp' = [temp EXCEPT ![p] = NoFile]
  /\ replaced' = IF run[p].existed /\ run[p].alone THEN replaced \cup {file} ELSE replaced
  /\ run' = [NoLongerAlone(run) EXCEPT ![p] = Idle]
  /\ UNCHANGED <<backups, runs, edits>>

\* The process dies; what it wrote so far stays, its sibling included.
Crash(p) ==
  /\ ~At(p, "idle")
  /\ End(p)
  /\ UNCHANGED <<file, temp, backups, runs, edits, replaced>>

-----------------------------------------------------------------------------
(* Everybody else. *)

Edit(c) ==
  /\ edits < MaxEdits /\ c # file
  /\ edits' = edits + 1
  /\ file' = c
  /\ run' = NoLongerAlone(run)
  /\ UNCHANGED <<temp, backups, runs, replaced>>

Next ==
  \/ \E p \in Runs : \/ \E option \in Options : Start(p, FALSE, option)
                     \/ Start(p, TRUE, Idle.option)
                     \/ Compare(p) \/ DryRun(p) \/ Open(p) \/ Fill(p)
                     \/ WriteFails(p) \/ Rename(p) \/ Crash(p)
                     \/ \E t \in Milliseconds : Backup(p, t)
  \/ \E c \in Written \cup {NoFile, NotJson} : Edit(c)

Spec == Init /\ [][Next]_vars

-----------------------------------------------------------------------------
(* Properties. *)

\* Rollback: what a run replaced, and nobody else had written since the run
\* copied it, is in a backup, and stays in one however many runs follow in the
\* same millisecond (copyToFreeBackupName).
Recoverable == \A c \in replaced : \E n \in DOMAIN backups : backups[n] = c

\* What a settings value holds that is not ours, entry by entry; an event
\* without a foreign entry counts as one that is not there.
ForeignPart(settings) ==
  [rest |-> settings.rest, other |-> settings.shape = "other",
   entries |-> [e \in Events |-> PruneEventEntries(EntriesOf(settings, e))]]

\* The commands of ours an event runs.
OurCommands(settings, event) ==
  LET entries == EntriesOf(settings, event)
  IN  {at \in (DOMAIN entries) \X (1..2) :
          at[2] \in DOMAIN entries[at[1]] /\ IsOurs(entries[at[1]][at[2]])}

\* What a run leaves: after an install each wired event has exactly one command
\* of ours, the one asked for, and after a removal no event has any; and a run
\* that replaces what it read keeps every entry and every key that is not ours,
\* in place, whether it installs or removes (pruneEventEntries,
\* mergeHooksIntoSettings, removeAgenthropicHooks).
LeftAsAsked ==
  [][\A p \in Runs : Rename(p) =>
       /\ IF run[p].remove THEN \A e \in Events : OurCommands(file', e) = {}
          ELSE \A e \in Wired : Cardinality(OurCommands(file', e)) = 1
       /\ IsSettings(file) /\ file = run[p].read =>
            ForeignPart(file') = ForeignPart(file)]_vars

=============================================================================
