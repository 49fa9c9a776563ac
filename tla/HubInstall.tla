------------------------------ MODULE HubInstall ------------------------------
(***************************************************************************)
(* install.sh: the hub's own installer, run again for every upgrade, over  *)
(* the .env and the compose file of the run before, which the owner may    *)
(* have edited.  One run at a time; it is cut by a failing command, a full *)
(* disk or a refusal, and leaves what it has written.                      *)
(***************************************************************************)
EXTENDS Naturals

CONSTANTS
  Absent,        \* no line, no file, no stack, no run
  MaxHubRuns     \* bound: runs, and so secrets made

HubStages == {"env", "compose", "fetching", "up"}

ASSUME HubInstallConstantsOK == MaxHubRuns \in Nat /\ Absent \notin Nat \union HubStages

Profiles == {"", "nvidia", "amd"}

File(kind) == [kind |-> kind, edit |-> 0]

VARIABLES
  gpu,       \* the vendor found: nvidia-smi first, then amdgpu; "" without a card
  ready,     \* its sidecar can start: the nvidia runtime, or /dev/kfd
  dotenv,    \* .env: Absent, or the lines that matter
  compose,   \* docker-compose.yaml: its kind, and which of the owner's edits
  backups,   \* the copies made of it
  stack,     \* the .env and compose file the containers were made with
  hubRuns,
  hubStage   \* where the run is, Absent when none is

hubFiles == <<dotenv, compose, backups>>
installerVars == <<gpu, ready, hubFiles, stack, hubRuns, hubStage>>

Vendor == IF ready THEN gpu ELSE ""

SkippedVendor == IF ready THEN "" ELSE gpu

RunHubInstall ==
  /\ hubStage = Absent /\ hubRuns < MaxHubRuns
  /\ hubRuns' = hubRuns + 1
  /\ hubStage' = "env"
  /\ UNCHANGED <<gpu, ready, hubFiles, stack>>

Fresh == hubRuns      \* openssl rand: never the same again

Lines == {"jwt", "boot", "profile"}

BackFilled_Anew(old) == [old EXCEPT !.jwt = Fresh, !.boot = Fresh]

\* Lines that are missing are appended, the others are left.
BackFilled(old) ==
  [old EXCEPT !.jwt = IF @ = Absent THEN Fresh ELSE @,
              !.boot = IF @ = Absent THEN Fresh ELSE @]

\* The vendor found replaces the profile; one that can no longer start is
\* cleared, and only that one.
Reprofiled(old) ==
  [old EXCEPT !.profile = IF Vendor # "" THEN Vendor
                          ELSE IF SkippedVendor # "" /\ @ = SkippedVendor THEN ""
                          ELSE @]

\* The file is made in one piece, or a full disk keeps the lines before a point.
EnvReady ==
  /\ hubStage = "env"
  /\ dotenv' = IF dotenv = Absent THEN [jwt |-> Fresh, boot |-> Fresh, profile |-> Vendor]
               ELSE Reprofiled(BackFilled(dotenv))
  /\ hubStage' = "compose"
  /\ UNCHANGED <<gpu, ready, compose, backups, stack, hubRuns>>

EnvCut ==
  /\ hubStage = "env" /\ dotenv = Absent
  /\ dotenv' \in { [jwt |-> Absent, boot |-> Absent, profile |-> Absent],
                   [jwt |-> Fresh, boot |-> Absent, profile |-> Absent],
                   [jwt |-> Fresh, boot |-> Fresh, profile |-> Absent] }
  /\ hubStage' = Absent
  /\ UNCHANGED <<gpu, ready, compose, backups, stack, hubRuns>>

\* No file: curl writes it in place.
FetchFirst ==
  /\ hubStage = "compose" /\ compose.kind = "none"
  /\ compose' = File("torn")
  /\ hubStage' = "fetching"
  /\ UNCHANGED <<gpu, ready, dotenv, backups, stack, hubRuns>>

Fetched ==
  /\ hubStage = "fetching"
  /\ compose' = File("latest")
  /\ hubStage' = "up"
  /\ UNCHANGED <<gpu, ready, dotenv, backups, stack, hubRuns>>

Overwrite == backups' = backups \union {compose}

\* A file that is there is compared with the one fetched to a temporary place:
\* the same, or kept (fetch failed, no terminal, answered no), or replaced.
Compared ==
  /\ hubStage = "compose" /\ compose.kind # "none"
  /\ \/ UNCHANGED <<compose, backups>>
     \/ compose.kind # "latest" /\ compose' = File("latest") /\ Overwrite
  /\ hubStage' = "up"
  /\ UNCHANGED <<gpu, ready, dotenv, stack, hubRuns>>

Starts == compose.kind # "torn" /\ dotenv.profile \in {"", Absent, Vendor}

\* pull, then up --force-recreate; for a stack that exists only after a yes.
Up ==
  /\ hubStage = "up"
  /\ \/ stack' = IF Starts THEN [env |-> dotenv, file |-> compose] ELSE stack
     \/ stack # Absent /\ stack' = stack
  /\ hubStage' = Absent
  /\ UNCHANGED <<gpu, ready, hubFiles, hubRuns>>

HubRunCut ==
  /\ hubStage # Absent
  /\ hubStage' = Absent
  /\ UNCHANGED <<gpu, ready, hubFiles, stack, hubRuns>>

\* Around it: drivers and toolkits come and go, the repository moves on, the
\* owner edits the files.
HostChanges ==
  /\ hubStage = Absent
  /\ gpu' \in Profiles /\ ready' \in BOOLEAN
  /\ UNCHANGED <<hubFiles, stack, hubRuns, hubStage>>

BranchMoves ==
  /\ compose.kind = "latest" /\ hubStage = Absent
  /\ compose' = File("older")
  /\ UNCHANGED <<gpu, ready, dotenv, backups, stack, hubRuns, hubStage>>

OwnerEdits ==
  /\ hubStage = Absent /\ compose.kind \in {"latest", "older"}
  /\ compose' = [kind |-> "edited", edit |-> hubRuns]
  /\ UNCHANGED <<gpu, ready, dotenv, backups, stack, hubRuns, hubStage>>

HubInstallInit ==
  /\ gpu \in Profiles /\ ready \in BOOLEAN
  /\ dotenv = Absent /\ compose = File("none") /\ backups = {} /\ stack = Absent
  /\ hubRuns = 0 /\ hubStage = Absent

HubInstallNext ==
  \/ RunHubInstall \/ EnvReady \/ EnvCut \/ FetchFirst \/ Fetched \/ Compared \/ Up
  \/ HubRunCut \/ HostChanges \/ BranchMoves \/ OwnerEdits

HubInstallSpec == HubInstallInit /\ [][HubInstallNext]_installerVars

------------------------------------------------------------------------------
(* Properties                                                               *)

Secrets == {"jwt", "boot"}

\* "re-running on an existing install keeps the .env intact": no run changes a
\* secret that is in the file (it would sign everybody out, lock the sidecar
\* out and make the exporters' stored secrets unreadable), and none loses an
\* edited compose file that no backup holds; what a run starts has both secrets,
\* even over a .env that was cut short.
OwnersThingsStay ==
  [][/\ dotenv # Absent => \A s \in Secrets : dotenv[s] # Absent => dotenv'[s] = dotenv[s]
     /\ compose.kind = "edited" => compose \in backups' \union {compose'}
     /\ stack' # Absent => \A s \in Secrets : stack'.env[s] # Absent]_installerVars
==============================================================================
