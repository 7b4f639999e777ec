--------------------------- MODULE PaymakerClient ---------------------------
(***************************************************************************)
(* The pay log of an announcement handler                                  *)
(* (packetcrypt-pool/src/paymakerclient.rs).  handle_paylog appends one    *)
(* entry per accepted batch to the open paylog file; switch_loop replaces  *)
(* the open file by a new one every 30 s; submit_loop scans the directory, *)
(* posts every file but the open one to the paymaker and deletes what the  *)
(* paymaker acknowledged; pc_update_loop installs the paymaker's URL.  The *)
(* three loops are tokio tasks: a step below is what a task does between   *)
(* two awaits, or while it holds the mutex pmcm.                           *)
(*                                                                         *)
(* tokio::fs::File::write_all returns once the bytes are handed to a       *)
(* blocking thread, so an entry is first in `flight' and reaches the file  *)
(* later, even when the File has been dropped: the shutdown() of           *)
(* switch_paylogs is a future nobody awaits.  The write may also fail; only *)
(* the next write_all on the same File reports it.                         *)
(***************************************************************************)
EXTENDS Integers, FiniteSets, FiniteSetsExt

CONSTANTS
  Entries,      \* the pay log entries (AnnsEvents) handle_paylog is called with
  MaxRestarts   \* bound: how often the process is killed and started again

ASSUME PaymakerAssumption == IsFiniteSet(Entries) /\ MaxRestarts \in Nat

(* A file is its number N in paylog_N.ndjson.  A switch needs an entry in   *)
(* the open file, so no more numbers than these are ever handed out.        *)
MaxFile == Cardinality(Entries) + MaxRestarts + 1
Files == 1 .. MaxFile
None == 0

VARIABLES
  \* the file system
  dir,       \* the files that are in paylogdir
  data,      \* the entries in each file, unlinked files that are open included
  part,      \* the entries of which a failed write left a part in each file
  flight,    \* <<file, entry>>: writes a blocking thread has still to do
  \* PaymakerClientMut
  open,      \* current_pay_file
  name,      \* current_file_name
  next,      \* next_file_num
  url,       \* maybe_paymaker_url is Some
  bad,       \* the last write of current_pay_file failed, which nobody knows yet
  ripe,      \* time_of_last_post is paylog_submit_every_ms ago
  \* the locals of submit_paylogs
  spc,       \* where the task is
  snap,      \* current_file_name as it was when the pass began
  listed,    \* the files that were there when read_dir opened the directory
  seen,      \* the entries next_entry has returned
  file,      \* the file being handled
  body,      \* what was read from it
  \* what the properties speak of
  restarts,  \* how often the process was restarted
  logged,    \* the entries handle_paylog answered Ok for
  got,       \* the event bodies the paymaker received
  read,      \* the files a pass has read since they were created
  late,      \* the entries that reached a file after a pass had read it
  killed,    \* the entries that were in flight when the process was killed
  failed     \* the entries whose write failed after handle_paylog's Ok

mut == <<open, name, next, url, bad, ripe>>
disk == <<dir, data, part, flight>>
pass == <<spc, snap, listed, seen, file, body>>
lost == <<late, killed, failed>>
vars == <<disk, mut, pass, restarts, logged, got, read, lost>>

SubmitPC == {"idle", "opendir", "next", "read", "post", "unlink"}

(* The variables have their types: switch_paylogs and new never hand out a  *)
(* file number beyond one per entry and restart.                            *)
TypeOK ==
  /\ dir \subseteq Files
  /\ data \in [Files -> SUBSET Entries]
  /\ part \in [Files -> SUBSET Entries]
  /\ flight \subseteq Files \X Entries
  /\ open \in Files
  /\ name \in Files \cup {MaxFile + 1}
  /\ next \in Files \cup {MaxFile + 1}
  /\ url \in BOOLEAN /\ bad \in BOOLEAN /\ ripe \in BOOLEAN
  /\ spc \in SubmitPC
  /\ snap \in Files \cup {None, MaxFile + 1}
  /\ listed \subseteq Files /\ seen \subseteq Files
  /\ file \in Files \cup {None}
  /\ body \subseteq Entries
  /\ restarts \in 0 .. MaxRestarts
  /\ logged \subseteq Entries
  /\ got \subseteq SUBSET Entries
  /\ read \subseteq Files
  /\ late \subseteq Entries /\ killed \subseteq Entries /\ failed \subseteq Entries

-----------------------------------------------------------------------------
(* new *)

(* Faulty: compares the wrong way round and finds the lowest number.        *)
LowestNum(d) == Min(IF d = {} THEN {0} ELSE d)

(* util::highest_num_file *)
HighestNum(d) == Max(d \cup {0})

Init ==
  /\ dir = {1} /\ data = [f \in Files |-> {}]
  /\ part = [f \in Files |-> {}] /\ flight = {}
  /\ open = 1 /\ name = 1 /\ next = 2
  /\ url = FALSE /\ bad = FALSE /\ ripe = FALSE
  /\ spc = "idle" /\ snap = None /\ listed = {} /\ seen = {}
  /\ file = None /\ body = {}
  /\ restarts = 0 /\ logged = {} /\ got = {} /\ read = {} /\ late = {}
  /\ killed = {} /\ failed = {}

(* File::create: the file is in the directory and empty.                    *)
Create(f) ==
  /\ dir' = dir \cup {f}
  /\ data' = [data EXCEPT ![f] = {}]
  /\ part' = [part EXCEPT ![f] = {}]
  /\ read' = read \ {f}

(* The process is killed and new runs again: the writes in flight are gone, *)
(* so are the handle, the URL and the pass; the directory stays.            *)
Restart ==
  /\ restarts < MaxRestarts
  /\ restarts' = restarts + 1
  /\ LET n == HighestNum(dir) + 1
     IN  Create(n) /\ open' = n /\ name' = n /\ next' = n + 1
  /\ url' = FALSE /\ bad' = FALSE /\ ripe' = FALSE
  /\ flight' = {}
  /\ killed' = killed \cup {w[2] : w \in flight}
  /\ spc' = "idle" /\ snap' = None /\ listed' = {} /\ seen' = {}
  /\ file' = None /\ body' = {}
  /\ UNCHANGED <<logged, got, late, failed>>

-----------------------------------------------------------------------------
(* handle_paylog and the blocking thread that does its write *)

(* The blocking thread has done every write of the open File: write_all     *)
(* waits for the write before its own.                                      *)
OpenIdle == \A w \in flight : w[1] # open

(* handle_paylog: under the mutex.  write_all hands its bytes over and      *)
(* returns.                                                                 *)
HandlePaylog(e) ==
  /\ e \notin logged
  /\ OpenIdle /\ ~bad
  /\ flight' = flight \cup {<<open, e>>}
  /\ logged' = logged \cup {e}
  /\ UNCHANGED <<dir, data, part, mut, pass, restarts, got, read, lost>>

(* handle_paylog returns the error of the write before it: its own entry is *)
(* not written, and the next call goes through again.                       *)
HandlePaylogErr ==
  /\ OpenIdle /\ bad
  /\ bad' = FALSE
  /\ UNCHANGED <<disk, open, name, next, url, ripe, pass, restarts, logged,
                 got, read, lost>>

(* The blocking thread writes an entry.                                     *)
Land(f, e) ==
  /\ <<f, e>> \in flight
  /\ flight' = flight \ {<<f, e>>}
  /\ data' = [data EXCEPT ![f] = @ \cup {e}]
  /\ late' = late \cup (IF f \in read THEN {e} ELSE {})
  /\ UNCHANGED <<dir, part, mut, pass, restarts, logged, got, read, killed, failed>>

(* The write fails, with a part of the line in the file or none.  The File  *)
(* keeps the error for its next write; a File that was dropped takes it     *)
(* along.                                                                   *)
LandFails(f, e) ==
  /\ <<f, e>> \in flight
  /\ flight' = flight \ {<<f, e>>}
  /\ part' \in {part, [part EXCEPT ![f] = @ \cup {e}]}
  /\ bad' = (bad \/ f = open)
  /\ failed' = failed \cup {e}
  /\ UNCHANGED <<dir, data, open, name, next, url, ripe, pass, restarts, logged,
                 got, read, late, killed>>

-----------------------------------------------------------------------------
(* switch_loop, pc_update_loop *)

(* paylog_submit_every_ms have passed since new; time_of_last_post is never *)
(* set again.                                                               *)
Ripen ==
  /\ ~ripe
  /\ ripe' = TRUE
  /\ UNCHANGED <<disk, open, name, next, url, bad, pass, restarts, logged,
                 got, read, lost>>

HasBytes(f) == data[f] \cup part[f] # {}

(* Faulty: the length of the file is not looked at.                         *)
MustSwitchEmpty == ripe

(* len() > 0 of the open file; when metadata() fails nothing happens.       *)
MustSwitch == ripe /\ HasBytes(open)

(* switch_paylogs: under the mutex, which the submit pass does not hold.    *)
(* The error the old File may keep goes with it.                            *)
SwitchPaylogs ==
  /\ MustSwitch
  /\ name' = next
  /\ Create(next)
  /\ open' = next
  /\ next' = next + 1
  /\ bad' = FALSE
  /\ UNCHANGED <<flight, url, ripe, pass, restarts, logged, got, lost>>

(* File::create fails: current_file_name has the new name already, the open *)
(* file is still the old one.                                               *)
SwitchFails ==
  /\ MustSwitch
  /\ name' = next
  /\ UNCHANGED <<disk, open, next, url, bad, ripe, pass, restarts, logged,
                 got, read, lost>>

(* pc_update_loop: the pool client sent its first update.                   *)
PcUpdate ==
  /\ ~url
  /\ url' = TRUE
  /\ UNCHANGED <<disk, open, name, next, bad, ripe, pass, restarts, logged,
                 got, read, lost>>

-----------------------------------------------------------------------------
(* submit_loop: one pass of submit_paylogs *)

(* The name of the open file is copied under the mutex; without a URL the   *)
(* pass returns at once.                                                    *)
Begin ==
  /\ spc = "idle" /\ url
  /\ spc' = "opendir"
  /\ snap' = name
  /\ UNCHANGED <<disk, mut, listed, seen, file, body, restarts,
                 logged, got, read, lost>>

ReadDir ==
  /\ spc = "opendir"
  /\ spc' = "next" /\ listed' = dir /\ seen' = {}
  /\ UNCHANGED <<disk, mut, snap, file, body, restarts, logged,
                 got, read, lost>>

(* "Don't try to publish the file we currently have open": current_file_name *)
(* is the copy the pass took.                                               *)
IsOpen(f) == f = snap

(* dir.next_entry(): any file that was there when the directory was opened, *)
(* and perhaps one that was created since.                                  *)
NextEntry(f) ==
  /\ spc = "next" /\ f \in dir \ seen
  /\ seen' = seen \cup {f}
  /\ IF IsOpen(f) THEN UNCHANGED <<spc, file>>
                  ELSE spc' = "read" /\ file' = f
  /\ UNCHANGED <<disk, mut, snap, listed, body, restarts, logged,
                 got, read, lost>>

(* The pass is over, or returned an error, and the loop sleeps.             *)
Over ==
  /\ spc' = "idle" /\ snap' = None /\ listed' = {} /\ seen' = {}
  /\ file' = None /\ body' = {}

LastEntry ==
  /\ spc = "next" /\ listed \subseteq seen
  /\ Over
  /\ UNCHANGED <<disk, mut, restarts, logged, got, read, lost>>

(* tokio::fs::read; an empty file is removed without being posted.          *)
ReadFile ==
  /\ spc = "read"
  /\ body' = data[file]
  /\ read' = read \cup {file}
  /\ spc' = IF ~HasBytes(file) THEN "unlink" ELSE "post"
  /\ UNCHANGED <<disk, mut, snap, listed, seen, file, restarts,
                 logged, got, lost>>

(* The paymaker took the event and says so with its id, the hash of body.   *)
PostOk ==
  /\ spc = "post"
  /\ got' = got \cup {body}
  /\ spc' = "unlink"
  /\ UNCHANGED <<disk, mut, snap, listed, seen, file, body, restarts,
                 logged, read, lost>>

(* Faulty: a file whose event id came back wrong is removed too.            *)
ContinueRemoves ==
  /\ spc' = "next" /\ file' = None /\ body' = {}
  /\ dir' = dir \ {file}
  /\ UNCHANGED <<snap, listed, seen>>

(* The loop goes on to the next file and leaves this one.                   *)
Continue ==
  /\ spc' = "next" /\ file' = None /\ body' = {}
  /\ UNCHANGED <<dir, snap, listed, seen>>

(* A reply that cannot be parsed, without a result or with another id: the  *)
(* paymaker may have taken the event or not.                                *)
PostRefused ==
  /\ spc = "post"
  /\ got' \in {got, got \cup {body}}
  /\ Continue
  /\ UNCHANGED <<data, part, flight, mut, restarts, logged, read, lost>>

(* No reply within 30 s, or no connection: submit_paylogs returns the error. *)
PostFails ==
  /\ spc = "post"
  /\ got' \in {got, got \cup {body}}
  /\ Over
  /\ UNCHANGED <<disk, mut, restarts, logged, read, lost>>

(* Faulty: an acknowledged file is kept.                                    *)
RemoveFileKeeps ==
  /\ spc = "unlink"
  /\ spc' = "next" /\ file' = None /\ body' = {}
  /\ UNCHANGED <<disk, mut, snap, listed, seen, restarts, logged,
                 got, read, lost>>

(* tokio::fs::remove_file *)
RemoveFile ==
  /\ spc = "unlink"
  /\ dir' = dir \ {file}
  /\ spc' = "next" /\ file' = None /\ body' = {}
  /\ UNCHANGED <<data, part, flight, mut, snap, listed, seen, restarts, logged, got,
                 read, lost>>

(* read_dir, next_entry, read or remove_file fails: submit_paylogs returns  *)
(* the error and the file stays.  (A failure after the last entry does what *)
(* LastEntry does.)                                                         *)
IoFails ==
  /\ spc \in {"opendir", "next", "read", "unlink"}
  /\ spc = "next" => ~(listed \subseteq seen)
  /\ Over
  /\ UNCHANGED <<disk, mut, restarts, logged, got, read, lost>>

SubmitStep ==
  \/ Begin \/ ReadDir \/ (\E f \in Files : NextEntry(f)) \/ LastEntry
  \/ ReadFile \/ PostOk \/ PostRefused \/ PostFails \/ RemoveFile \/ IoFails

Next ==
  \/ \E e \in Entries : HandlePaylog(e)
  \/ HandlePaylogErr
  \/ \E f \in Files, e \in Entries : Land(f, e) \/ LandFails(f, e)
  \/ Ripen \/ SwitchPaylogs \/ SwitchFails \/ PcUpdate
  \/ SubmitStep
  \/ Restart

Spec == Init /\ [][Next]_vars

(* Every task is scheduled, blocking writes end, the pool client is         *)
(* answered in the end, the disk stops failing at some time, and a file     *)
(* that is posted again and again is acknowledged at some point: nothing    *)
(* else is assumed of the paymaker.                                         *)
FairSpec ==
  /\ Spec
  /\ WF_vars(\E f \in Files, e \in Entries : Land(f, e) \/ LandFails(f, e))
  /\ WF_vars(Ripen) /\ WF_vars(PcUpdate) /\ WF_vars(SwitchPaylogs)
  /\ WF_vars(SubmitStep)
  /\ <>[][~IoFails]_vars
  /\ \A f \in Files : SF_vars(file = f /\ PostOk)

-----------------------------------------------------------------------------
(* Properties *)

OnDisk(e) == \E f \in dir : e \in data[f]
Received(e) == \E b \in got : e \in b
InFlight(e) == \E f \in Files : <<f, e>> \in flight

(* Whatever the switch, the pass, the paymaker's replies and restarts do,   *)
(* an entry handle_paylog accepted is on its way to a file, in a file of    *)
(* the directory, or at the paymaker; the only entries that can be missing  *)
(* are those written to a file after a pass read it (the file was still     *)
(* open, or the write still in flight), those in flight at a kill and those *)
(* whose write failed after handle_paylog had returned Ok.                  *)
LostOnlyIfLate ==
  \A e \in logged \ (late \cup killed \cup failed) :
    InFlight(e) \/ OnDisk(e) \/ Received(e)

(* File::create never truncates a file that is in the directory: the        *)
(* numbers new and switch_paylogs choose are fresh, restarts included.      *)
NoFileTruncated == [][\A f \in dir \cap dir' : data[f] \subseteq data'[f]]_vars

(* No entry stays in the directory for ever: the file it is in is switched  *)
(* away from, posted, acknowledged and removed.                             *)
PaylogsDrain == \A e \in Entries : OnDisk(e) ~> ~OnDisk(e)

(* submit_paylogs' comment: "Don't try to publish the file we currently     *)
(* have open" (the file the File of PaymakerClientMut writes to).           *)
OpenFileNotPublished == spc = "post" => file # open

(* The same comment, of the file current_file_name names while the pass is  *)
(* running: no switch_paylogs makes the pass's copy of the name stale.      *)
NamedFileNotPublished == spc = "post" => file # name

=============================================================================
