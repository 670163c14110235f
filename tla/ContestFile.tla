---------------------------- MODULE ContestFile ----------------------------
(***************************************************************************)
(* The JSON file of contests and the commands that synchronize into it     *)
(* (src/data/sync.ts, jsonStore.ts, src/cli/sync.ts, refresh.ts).          *)
(*                                                                         *)
(* The commands are processes of their own and take no lock on the file:   *)
(* each fetches, loads the file again, merges what it fetched into what it *)
(* loaded, and writes the whole of it.  writeFile() empties the file when  *)
(* it opens it and fills it afterwards, so that between the two, and for   *)
(* good when the command dies there, the file does not parse.              *)
(***************************************************************************)
EXTENDS Integers

CONSTANTS
    Commands,       \* the commands run, one after another or together
    FileLotteries,  \* the lotteries synchronized
    LastInFile,     \* contests 1..LastInFile are drawn
    Versions,       \* what CAIXA may answer for one contest
    MaxDownloads    \* bound on the contests fetched

ASSUME FileAssumption == LastInFile \in Nat \ {0} /\ MaxDownloads \in Nat

VARIABLES
    newest,     \* the contest drawn last, of each lottery
    file,       \* the rows that parse out of the file: contest |-> version
    torn,       \* the file does not parse
    commands,   \* where each command is and what it holds
    outdated,   \* the commands since whose last read or opening another opened the file
    downloads,  \* contests fetched so far
    spoiled,    \* history: a write followed an outdated read, or was cut short
    told        \* history: contest |-> version last reported as stored

fileVars == <<newest, file, torn, commands, outdated, downloads, spoiled, told>>

\* keyOf()
Contests == FileLotteries \X (1..LastInFile)
Drawn == {k \in Contests : k[2] <= newest[k[1]]}

NoRows == <<>>

Carrying(place, todo, fetched, loaded) ==
    [at |-> place, todo |-> todo, fetched |-> fetched, loaded |-> loaded]
NoCommand == Carrying("idle", {}, NoRows, NoRows)
Turns(c, x) == commands' = [commands EXCEPT ![c] = x]

CommandAt(c, place) == commands[c].at = place
Writing(c) == CommandAt(c, "writing")

\* mergeContests(): by contest, the incoming row winning.
MergeContests(existing, incoming) ==
    [k \in DOMAIN existing \cup DOMAIN incoming |->
        IF k \in DOMAIN incoming THEN incoming[k] ELSE existing[k]]

-----------------------------------------------------------------------------
(* Fetching                                                                *)

Download == downloads < MaxDownloads /\ downloads' = downloads + 1

Lists(c, wanted) ==
    /\ CommandAt(c, "idle")
    /\ Turns(c, Carrying("fetching", wanted, NoRows, NoRows))
    /\ UNCHANGED <<newest, file, torn, outdated, downloads, spoiled, told>>

ContestRange(l, first, last) == {k \in Contests : k[1] = l /\ k[2] \in first..last}

\* syncMissingContests(): the contests of a range that the file lacks now; what
\* else the file holds is read again later.
StartMissing(c) ==
    /\ ~torn
    /\ \E l \in FileLotteries, first, last \in 1..LastInFile :
          first <= last /\ Lists(c, ContestRange(l, first, last) \ DOMAIN file)

\* syncContestRange(): all of them.
StartRange(c) ==
    \E l \in FileLotteries, first, last \in 1..LastInFile :
        first <= last /\ Lists(c, ContestRange(l, first, last))

\* syncLatestContest(): the only contest is the last one drawn.
FetchLatest(c) ==
    /\ CommandAt(c, "idle") /\ Download
    /\ \E l \in FileLotteries, v \in Versions :
          Turns(c, Carrying("fetching", {}, [k \in {<<l, newest[l]>>} |-> v], NoRows))
    /\ UNCHANGED <<newest, file, torn, outdated, spoiled, told>>

\* The contests are fetched one by one, in order; one that is not drawn fails.
FetchNext(c) ==
    /\ CommandAt(c, "fetching") /\ Download
    /\ \E k \in commands[c].todo \cap Drawn, v \in Versions :
          /\ \A other \in commands[c].todo : k[2] <= other[2]
          /\ Turns(c, Carrying("fetching", commands[c].todo \ {k},
                               MergeContests(commands[c].fetched, [j \in {k} |-> v]), NoRows))
    /\ UNCHANGED <<newest, file, torn, outdated, spoiled, told>>

\* Nothing was missing: the file is only read for the totals printed.
EndCommand(c) ==
    /\ CommandAt(c, "fetching") /\ commands[c].todo = {} /\ DOMAIN commands[c].fetched = {}
    /\ Turns(c, NoCommand)
    /\ UNCHANGED <<newest, file, torn, outdated, downloads, spoiled, told>>

-----------------------------------------------------------------------------
(* Storing: upsertContests()                                               *)

\* A plausible slip (used by a mutant): a file that does not parse is taken for a
\* missing one.
LoadAnything(c) ==
    /\ CommandAt(c, "fetching") /\ commands[c].todo = {} /\ DOMAIN commands[c].fetched # {}
    /\ Turns(c, Carrying("loaded", {}, commands[c].fetched, file))
    /\ UNCHANGED <<newest, file, torn, outdated, downloads, spoiled, told>>

\* loadContests(): a file that does not parse is an error, a missing one is empty.
LoadFile(c) ==
    /\ CommandAt(c, "fetching") /\ commands[c].todo = {} /\ DOMAIN commands[c].fetched # {}
    /\ ~torn
    /\ Turns(c, Carrying("loaded", {}, commands[c].fetched, file))
    /\ UNCHANGED <<newest, file, torn, outdated, downloads, spoiled, told>>

\* saveContests(): writeFile() opens the file and empties it, ...
OpenFile(c) ==
    /\ CommandAt(c, "loaded")
    /\ Turns(c, Carrying("writing", {}, commands[c].fetched, commands[c].loaded))
    /\ outdated' = {d \in Commands \ {c} : d \in outdated \/ CommandAt(d, "loaded") \/ Writing(d)}
                   \cup {d \in {c} : \E e \in Commands \ {c} : Writing(e)}
    /\ file' = NoRows /\ torn' = TRUE
    /\ spoiled' = (spoiled \/ c \in outdated)
    /\ UNCHANGED <<newest, downloads, told>>

\* ... then fills it.  The text of two commands that write together may not parse.
WriteFile(c) ==
    /\ Writing(c)
    /\ \E breaks \in IF c \in outdated THEN BOOLEAN ELSE {FALSE} :
          /\ torn' = breaks
          /\ file' = IF breaks THEN NoRows
                     ELSE MergeContests(commands[c].loaded, commands[c].fetched)
    /\ told' = [k \in DOMAIN told \cup DOMAIN commands[c].fetched |->
                   IF k \in DOMAIN commands[c].fetched THEN commands[c].fetched[k] ELSE told[k]]
    /\ Turns(c, NoCommand) /\ outdated' = outdated \ {c}
    /\ UNCHANGED <<newest, downloads, spoiled>>

\* A fetch, a read or a write fails, or the command is killed, wherever it is.
BreakCommand(c) ==
    /\ ~CommandAt(c, "idle")
    /\ Turns(c, NoCommand) /\ outdated' = outdated \ {c}
    /\ spoiled' = (spoiled \/ Writing(c))
    /\ UNCHANGED <<newest, file, torn, downloads, told>>

\* A contest is drawn.
DrawInFile ==
    /\ \E l \in FileLotteries :
          newest[l] < LastInFile /\ newest' = [newest EXCEPT ![l] = @ + 1]
    /\ UNCHANGED <<file, torn, commands, outdated, downloads, spoiled, told>>

-----------------------------------------------------------------------------

FileInit ==
    /\ newest = [l \in FileLotteries |-> 1]
    /\ file = NoRows /\ torn = FALSE
    /\ commands = [c \in Commands |-> NoCommand] /\ outdated = {}
    /\ downloads = 0
    /\ spoiled = FALSE /\ told = NoRows

FileNext ==
    \/ \E c \in Commands :
          \/ StartMissing(c) \/ StartRange(c) \/ FetchLatest(c) \/ FetchNext(c) \/ EndCommand(c)
          \/ LoadFile(c) \/ OpenFile(c) \/ WriteFile(c) \/ BreakCommand(c)
    \/ DrawInFile

FileSpec == FileInit /\ [][FileNext]_fileVars

-----------------------------------------------------------------------------
(* Properties                                                              *)

IsRows(rows) == DOMAIN rows \subseteq Contests /\ \A k \in DOMAIN rows : rows[k] \in Versions

CommandOK(x) ==
    /\ x.at \in {"idle", "fetching", "loaded", "writing"}
    /\ x.todo \subseteq Contests
    /\ IsRows(x.fetched) /\ IsRows(x.loaded)

\* The file and what the commands hold of it are rows of contests.
FileTypeOK ==
    /\ newest \in [FileLotteries -> 1..LastInFile]
    /\ IsRows(file) /\ IsRows(told)
    /\ DOMAIN commands = Commands /\ \A c \in Commands : CommandOK(commands[c])
    /\ outdated \subseteq Commands
    /\ torn \in BOOLEAN /\ spoiled \in BOOLEAN /\ downloads \in 0..MaxDownloads

\* However long the commands take to fetch, in whatever order they do, and
\* wherever they fail: if no command has written the file from a read that was
\* outdated by then, and none was cut short while it wrote, the file parses
\* whenever nobody writes it, and it holds exactly the contests that were reported
\* as stored, each in the version reported last.  The two exceptions lose contests.
ReportedIsStored ==
    ~spoiled /\ (\A c \in Commands : ~Writing(c)) => ~torn /\ file = told
=============================================================================
