------------------------ MODULE PaymakerClientProofs ------------------------
(***************************************************************************)
(* That the pay log loses no entry but in the three ways LostOnlyIfLate    *)
(* names, that no file of the directory is ever truncated, and how many    *)
(* files there can be, for any number of entries and restarts.  The        *)
(* argument: the open file has the highest number, so that a new one is    *)
(* never one of the directory; and whatever a pass removes was read before *)
(* and is at the paymaker, or came after the reading.                      *)
(***************************************************************************)
EXTENDS PaymakerClient, FiniteSetTheorems, TLAPS

\* The entries whose write has been done, or has failed.
Landed == {e \in logged \ killed : \A f \in Files : <<f, e>> \notin flight}

\* The entries that are in the open file, wholly or in part.
Here == data[open] \cup part[open]

\* An entry is written once, and not after it was lost.
FlightInv ==
  /\ killed \subseteq logged
  /\ \A w \in flight : w[2] \in logged \ killed
  /\ \A v, w \in flight : v[2] = w[2] => v = w
  /\ Here \subseteq Landed

\* The open file has the highest number; and every file but the open one was
\* switched away from after an entry had reached it, or left by a restart.
NumberInv ==
  /\ dir \subseteq 1 .. open
  /\ \A w \in flight : w[1] \in 1 .. open
  /\ next = open + 1
  /\ name \in {open, open + 1}
  /\ open <= 1 + restarts + Cardinality(Landed \ Here)

\* What a pass has read it has in body, but for what came late; a file that
\* is open or is still written to is in the directory, or was read.
PassInv ==
  /\ spc \in {"read", "post", "unlink"} => file \in dir
  /\ spc \in {"post", "unlink"} => file \in read /\ data[file] \subseteq body \cup late
  /\ spc = "unlink" => body = {} \/ body \in got
  /\ open \in dir \cup read
  /\ \A w \in flight : w[1] \in dir \cup read

IInv == TypeOK /\ FlightInv /\ NumberInv /\ PassInv /\ LostOnlyIfLate

-----------------------------------------------------------------------------
(* Numbers.                                                                *)

\* util::highest_num_file: the highest number of a directory, or 0.
LEMMA Highest ==
  ASSUME NEW n \in Nat, NEW d \in SUBSET (1 .. n)
  PROVE  /\ HighestNum(d) \in 0 .. n
         /\ \A f \in d : f <= HighestNum(d)
<1> DEFINE R == OpToRel(<, Nat)
           T == {m \in 0 .. n : n - m \in d \cup {0}}
<1>1. IsWellFoundedOn(R, Nat)
  BY NatLessThanWellFounded
<1>2. n \in T /\ T \subseteq Nat
  OBVIOUS
<1>3. PICK m \in T : \A y \in T : ~(<<y, m>> \in R)
  BY <1>1, <1>2, WFMin
<1>4. \A y \in T : y >= m
  <2>1. \A x, y \in Nat : x < y => <<x, y>> \in R
    BY DEF OpToRel
  <2> HIDE DEF R, T
  <2>2. m \in Nat
    BY <1>2
  <2>3. \A y \in T : y \in Nat /\ ~(y < m)
    BY <1>2, <1>3, <2>1, <2>2
  <2> QED BY <2>2, <2>3
<1>5. \A f \in d \cup {0} : f \in 0 .. n /\ n - f \in T
  OBVIOUS
<1>6. n - m \in d \cup {0} /\ \A f \in d \cup {0} : n - m >= f
  BY <1>2, <1>4, <1>5
<1>7. /\ HighestNum(d) \in d \cup {0}
      /\ \A f \in d \cup {0} : HighestNum(d) >= f
  BY <1>6 DEF HighestNum, Max
<1> QED BY <1>5, <1>7

\* The counts that the numbers are made of.
LEMMA Counts ==
  ASSUME TypeOK, NEW S \in SUBSET Entries
  PROVE  /\ IsFiniteSet(S) /\ Cardinality(S) \in Nat
         /\ Cardinality(S) <= Cardinality(Entries)
         /\ MaxFile = Cardinality(Entries) + MaxRestarts + 1
         /\ Cardinality(Entries) \in Nat /\ restarts \in Nat /\ MaxRestarts \in Nat
         /\ restarts <= MaxRestarts
<1>1. IsFiniteSet(S) /\ Cardinality(S) <= Cardinality(Entries)
  BY PaymakerAssumption, FS_Subset
<1>2. Cardinality(S) \in Nat /\ Cardinality(Entries) \in Nat
  BY <1>1, PaymakerAssumption, FS_CardinalityType
<1> QED BY <1>1, <1>2, PaymakerAssumption DEF TypeOK, MaxFile

\* A number that the count allows is a file's.
LEMMA NumberType ==
  ASSUME TypeOK, NEW S \in SUBSET Entries, NEW n \in Nat \ {0},
         n <= 1 + restarts + Cardinality(S)
  PROVE  n \in Files /\ n + 1 \in Files \cup {MaxFile + 1} /\ MaxFile \in Nat
BY Counts DEF Files

-----------------------------------------------------------------------------
(* A pass of submit_paylogs.                                               *)

\* A step of the pass that removes nothing.
LEMMA PassFrame ==
  ASSUME IInv, got \subseteq got',
         UNCHANGED <<dir, data, part, flight, open, name, next, restarts, logged, late, killed, failed>>
  PROVE  FlightInv' /\ NumberInv' /\ LostOnlyIfLate'
<1>1. Landed' = Landed
  BY DEF Landed
<1>2. FlightInv' /\ NumberInv'
  <2>1. Here' = Here
    BY DEF Here
  <2> QED BY <1>1, <2>1 DEF IInv, FlightInv, NumberInv
<1>3. LostOnlyIfLate'
  BY DEF IInv, LostOnlyIfLate, InFlight, OnDisk, Received
<1> QED BY <1>2, <1>3

\* It is time to post.
LEMMA RipenStep == ASSUME IInv, Ripen PROVE IInv'
<1> USE DEF Ripen, pass, disk, lost
<1>1. TypeOK'
  BY DEF IInv, TypeOK, SubmitPC
<1>2. PassInv'
  BY DEF IInv, TypeOK, PassInv
<1>3. FlightInv' /\ NumberInv' /\ LostOnlyIfLate'
  BY PassFrame
<1> QED BY <1>1, <1>2, <1>3 DEF IInv

\* The paymaker's URL is known.
LEMMA PcUpdateStep == ASSUME IInv, PcUpdate PROVE IInv'
<1> USE DEF PcUpdate, pass, disk, lost
<1>1. TypeOK'
  BY DEF IInv, TypeOK, SubmitPC
<1>2. PassInv'
  BY DEF IInv, TypeOK, PassInv
<1>3. FlightInv' /\ NumberInv' /\ LostOnlyIfLate'
  BY PassFrame
<1> QED BY <1>1, <1>2, <1>3 DEF IInv

\* The name of the open file is copied.
LEMMA BeginStep == ASSUME IInv, Begin PROVE IInv'
<1> USE DEF Begin, mut, disk, lost
<1>1. TypeOK'
  BY DEF IInv, TypeOK, SubmitPC
<1>2. PassInv'
  BY DEF IInv, TypeOK, PassInv
<1>3. FlightInv' /\ NumberInv' /\ LostOnlyIfLate'
  BY PassFrame
<1> QED BY <1>1, <1>2, <1>3 DEF IInv

\* The directory is opened.
LEMMA ReadDirStep == ASSUME IInv, ReadDir PROVE IInv'
<1> USE DEF ReadDir, mut, disk, lost
<1>1. TypeOK'
  BY DEF IInv, TypeOK, SubmitPC
<1>2. PassInv'
  BY DEF IInv, TypeOK, PassInv
<1>3. FlightInv' /\ NumberInv' /\ LostOnlyIfLate'
  BY PassFrame
<1> QED BY <1>1, <1>2, <1>3 DEF IInv

\* A file is found.
LEMMA NextEntryStep == ASSUME IInv, NEW f \in Files, NextEntry(f) PROVE IInv'
<1> USE DEF NextEntry, mut, disk, lost
<1>1. TypeOK'
  BY DEF IInv, TypeOK, SubmitPC
<1>2. PassInv'
  BY DEF IInv, TypeOK, PassInv
<1>3. FlightInv' /\ NumberInv' /\ LostOnlyIfLate'
  BY PassFrame
<1> QED BY <1>1, <1>2, <1>3 DEF IInv

\* There are no more files.
LEMMA LastEntryStep == ASSUME IInv, LastEntry PROVE IInv'
<1> USE DEF LastEntry, Over, mut, disk, lost
<1>1. TypeOK'
  BY DEF IInv, TypeOK, SubmitPC
<1>2. PassInv'
  BY DEF IInv, TypeOK, PassInv
<1>3. FlightInv' /\ NumberInv' /\ LostOnlyIfLate'
  BY PassFrame
<1> QED BY <1>1, <1>2, <1>3 DEF IInv

\* The file is read.
LEMMA ReadFileStep == ASSUME IInv, ReadFile PROVE IInv'
<1> USE DEF ReadFile, mut, disk, lost
<1>1. TypeOK'
  <2>1. file \in Files /\ data[file] \subseteq Entries
    BY DEF IInv, TypeOK, PassInv
  <2> QED BY <2>1 DEF IInv, TypeOK, SubmitPC
<1>2. PassInv'
  <2>1. file \in Files /\ (~HasBytes(file) => data[file] = {})
    BY DEF IInv, TypeOK, PassInv, HasBytes
  <2> QED BY <2>1 DEF IInv, TypeOK, PassInv
<1>3. FlightInv' /\ NumberInv' /\ LostOnlyIfLate'
  BY PassFrame
<1> QED BY <1>1, <1>2, <1>3 DEF IInv

\* The paymaker acknowledges it.
LEMMA PostOkStep == ASSUME IInv, PostOk PROVE IInv'
<1> USE DEF PostOk, mut, disk, lost
<1>1. TypeOK'
  BY DEF IInv, TypeOK, SubmitPC
<1>2. PassInv'
  BY DEF IInv, TypeOK, PassInv
<1>3. FlightInv' /\ NumberInv' /\ LostOnlyIfLate'
  BY PassFrame
<1> QED BY <1>1, <1>2, <1>3 DEF IInv

\* The paymaker says something else.
LEMMA PostRefusedStep == ASSUME IInv, PostRefused PROVE IInv'
<1> USE DEF PostRefused, Continue, mut, disk, lost
<1>1. TypeOK'
  BY DEF IInv, TypeOK, SubmitPC
<1>2. PassInv'
  BY DEF IInv, TypeOK, PassInv
<1>3. FlightInv' /\ NumberInv' /\ LostOnlyIfLate'
  BY PassFrame
<1> QED BY <1>1, <1>2, <1>3 DEF IInv

\* The paymaker says nothing.
LEMMA PostFailsStep == ASSUME IInv, PostFails PROVE IInv'
<1> USE DEF PostFails, Over, mut, disk, lost
<1>1. TypeOK'
  BY DEF IInv, TypeOK, SubmitPC
<1>2. PassInv'
  BY DEF IInv, TypeOK, PassInv
<1>3. FlightInv' /\ NumberInv' /\ LostOnlyIfLate'
  BY PassFrame
<1> QED BY <1>1, <1>2, <1>3 DEF IInv

\* The disk fails.
LEMMA IoFailsStep == ASSUME IInv, IoFails PROVE IInv'
<1> USE DEF IoFails, Over, mut, disk, lost
<1>1. TypeOK'
  BY DEF IInv, TypeOK, SubmitPC
<1>2. PassInv'
  BY DEF IInv, TypeOK, PassInv
<1>3. FlightInv' /\ NumberInv' /\ LostOnlyIfLate'
  BY PassFrame
<1> QED BY <1>1, <1>2, <1>3 DEF IInv

\* A file is removed: what was in it is at the paymaker, or came late.
LEMMA RemoveFileStep == ASSUME IInv, RemoveFile PROVE IInv'
<1> USE DEF RemoveFile, mut, disk, lost
<1>1. TypeOK'
  BY DEF IInv, TypeOK, SubmitPC
<1>2. Landed' = Landed
  BY DEF Landed
<1>3. FlightInv' /\ NumberInv'
  <2>1. Here' = Here
    BY DEF Here
  <2> QED BY <1>2, <2>1 DEF IInv, FlightInv, NumberInv
<1>4. PassInv'
  BY DEF IInv, PassInv
<1>5. LostOnlyIfLate'
  <2>1. \A e \in data[file] : e \in late \/ Received(e)
    BY DEF IInv, PassInv, Received
  <2> QED BY <2>1 DEF IInv, LostOnlyIfLate, InFlight, OnDisk, Received
<1> QED BY <1>1, <1>3, <1>4, <1>5 DEF IInv

-----------------------------------------------------------------------------
(* The log and its files.                                                  *)

\* An entry is handed to the blocking thread.
LEMMA HandlePaylogStep == ASSUME IInv, NEW e \in Entries, HandlePaylog(e) PROVE IInv'
<1>1. /\ UNCHANGED <<dir, data, part, open, name, next, url, bad, ripe, spc, snap>>
      /\ UNCHANGED <<listed, seen, file, body, restarts, got, read>>
      /\ UNCHANGED <<late, killed, failed>>
      /\ e \notin logged /\ logged' = logged \cup {e}
      /\ flight' = flight \cup {<<open, e>>}
  BY DEF HandlePaylog, mut, pass, lost
<1>2. TypeOK'
  BY <1>1 DEF IInv, TypeOK
<1>3. Landed' = Landed /\ Here' = Here
  BY <1>1 DEF IInv, TypeOK, Landed, Here
<1>4. FlightInv'
  BY <1>1, <1>3 DEF IInv, FlightInv
<1>5. NumberInv'
  <2>1. open \in 1 .. open
    BY DEF IInv, TypeOK, Files
  <2> QED BY <1>1, <1>3, <2>1 DEF IInv, NumberInv
<1>6. PassInv'
  BY <1>1 DEF IInv, PassInv
<1>7. LostOnlyIfLate'
  <2>1. InFlight(e)'
    BY <1>1 DEF InFlight, IInv, TypeOK
  <2> QED BY <1>1, <2>1 DEF IInv, LostOnlyIfLate, InFlight, OnDisk, Received
<1> QED BY <1>2, <1>4, <1>5, <1>6, <1>7 DEF IInv

\* The error of an earlier write is returned.
LEMMA HandlePaylogErrStep == ASSUME IInv, HandlePaylogErr PROVE IInv'
<1> USE DEF HandlePaylogErr, disk, pass, lost
<1>1. TypeOK'
  BY DEF IInv, TypeOK, SubmitPC
<1>2. PassInv'
  BY DEF IInv, TypeOK, PassInv
<1>3. FlightInv' /\ NumberInv' /\ LostOnlyIfLate'
  BY PassFrame
<1> QED BY <1>1, <1>2, <1>3 DEF IInv

\* A write ends, in its file or not: the numbers still count.
LEMMA WriteEnds ==
  ASSUME IInv, NEW f \in Files, NEW e \in Entries, <<f, e>> \in flight,
         flight' = flight \ {<<f, e>>},
         UNCHANGED <<dir, open, name, next, restarts, logged, killed>>,
         Here \subseteq Here', Here' \subseteq Here \cup {e}
  PROVE  FlightInv' /\ NumberInv'
<1>1. Landed' = Landed \cup {e} /\ e \notin Landed /\ Landed' \subseteq Entries
  <2>1. e \in logged \ killed /\ \A g \in Files : <<g, e>> \in flight => g = f
    BY DEF IInv, FlightInv
  <2> QED BY <2>1 DEF IInv, TypeOK, Landed
<1>2. FlightInv'
  <2>1. Here' \subseteq Landed'
    BY <1>1 DEF IInv, FlightInv
  <2> QED BY <2>1 DEF IInv, FlightInv
<1>3. NumberInv'
  <2>1. Landed \ Here \subseteq Landed' \ Here'
    BY <1>1
  <2>2. /\ IsFiniteSet(Landed' \ Here')
        /\ Cardinality(Landed' \ Here') \in Nat
        /\ Cardinality(Landed \ Here) \in Nat
    BY <1>1, <2>1, Counts DEF IInv
  <2>3. Cardinality(Landed \ Here) <= Cardinality(Landed' \ Here')
    BY <2>1, <2>2, FS_Subset
  <2>4. open \in Nat /\ restarts \in Nat
    BY DEF IInv, TypeOK, Files
  <2> QED BY <2>2, <2>3, <2>4 DEF IInv, NumberInv
<1> QED BY <1>2, <1>3

\* An entry reaches its file: one of the directory, or one that was read.
LEMMA LandStep ==
  ASSUME IInv, NEW f \in Files, NEW e \in Entries, Land(f, e) PROVE IInv'
<1>1. /\ UNCHANGED <<dir, part, open, name, next, url, bad, ripe, spc, snap>>
      /\ UNCHANGED <<listed, seen, file, body, restarts, logged, got, read>>
      /\ UNCHANGED <<killed, failed>>
      /\ <<f, e>> \in flight /\ flight' = flight \ {<<f, e>>}
      /\ data' = [data EXCEPT ![f] = @ \cup {e}]
      /\ late' = late \cup (IF f \in read THEN {e} ELSE {})
  BY DEF Land, mut, pass
<1>2. /\ data'[f] = data[f] \cup {e}
      /\ \A g \in Files \ {f} : data'[g] = data[g]
  BY <1>1 DEF IInv, TypeOK
<1>3. TypeOK'
  BY <1>1 DEF IInv, TypeOK
<1>4. FlightInv' /\ NumberInv'
  <2>1. Here \subseteq Here' /\ Here' \subseteq Here \cup {e}
    BY <1>1, <1>2 DEF IInv, TypeOK, Here
  <2> QED BY <1>1, <2>1, WriteEnds
<1>5. PassInv'
  <2>1. spc \in {"post", "unlink"} => data'[file] \subseteq body \cup late'
    BY <1>1, <1>2 DEF IInv, TypeOK, PassInv
  <2> QED BY <1>1, <2>1 DEF IInv, PassInv
<1>6. LostOnlyIfLate'
  <2>1. e \in late' \/ OnDisk(e)'
    <3>1. f \in dir \cup read
      BY <1>1 DEF IInv, PassInv
    <3> QED BY <1>1, <1>2, <3>1 DEF OnDisk
  <2>2. \A x \in Entries : OnDisk(x) => OnDisk(x)'
    BY <1>1, <1>2 DEF IInv, TypeOK, OnDisk
  <2>3. \A x \in Entries : x # e /\ InFlight(x) => InFlight(x)'
    BY <1>1 DEF InFlight
  <2>4. \A x \in Entries : Received(x) => Received(x)'
    BY <1>1 DEF Received
  <2>5. logged \subseteq Entries
    BY DEF IInv, TypeOK
  <2> QED BY <1>1, <2>1, <2>2, <2>3, <2>4, <2>5 DEF IInv, LostOnlyIfLate
<1> QED BY <1>3, <1>4, <1>5, <1>6 DEF IInv

\* The write of an entry fails.
LEMMA LandFailsStep ==
  ASSUME IInv, NEW f \in Files, NEW e \in Entries, LandFails(f, e) PROVE IInv'
<1>1. /\ UNCHANGED <<dir, data, open, name, next, url, ripe, spc, snap>>
      /\ UNCHANGED <<listed, seen, file, body, restarts, logged, got, read>>
      /\ UNCHANGED <<late, killed>>
      /\ <<f, e>> \in flight /\ flight' = flight \ {<<f, e>>}
      /\ part' \in {part, [part EXCEPT ![f] = @ \cup {e}]}
      /\ bad' = (bad \/ f = open)
      /\ failed' = failed \cup {e}
  BY DEF LandFails, pass
<1>2. part' \in [Files -> SUBSET Entries]
  BY <1>1 DEF IInv, TypeOK
<1>3. TypeOK'
  BY <1>1, <1>2 DEF IInv, TypeOK
<1>4. FlightInv' /\ NumberInv'
  <2>1. part[open] \subseteq part'[open] /\ part'[open] \subseteq part[open] \cup {e}
    BY <1>1 DEF IInv, TypeOK
  <2>2. Here \subseteq Here' /\ Here' \subseteq Here \cup {e}
    BY <1>1, <2>1 DEF Here
  <2> QED BY <1>1, <2>2, WriteEnds
<1>5. PassInv'
  BY <1>1 DEF IInv, PassInv
<1>6. LostOnlyIfLate'
  <2>1. \A x \in Entries : x # e /\ InFlight(x) => InFlight(x)'
    BY <1>1 DEF InFlight
  <2>2. \A x \in Entries : (OnDisk(x) => OnDisk(x)') /\ (Received(x) => Received(x)')
    BY <1>1 DEF OnDisk, Received
  <2>3. logged \subseteq Entries
    BY DEF IInv, TypeOK
  <2> QED BY <1>1, <2>1, <2>2, <2>3 DEF IInv, LostOnlyIfLate
<1> QED BY <1>3, <1>4, <1>5, <1>6 DEF IInv

\* File::create of a number that is not in the directory.
LEMMA CreateFresh ==
  ASSUME IInv, NEW n \in Files, n \notin dir, Create(n)
  PROVE  /\ data' \in [Files -> SUBSET Entries] /\ part' \in [Files -> SUBSET Entries]
         /\ data'[n] = {} /\ part'[n] = {}
         /\ \A g \in dir : data'[g] = data[g]
         /\ \A e \in Entries : OnDisk(e) => OnDisk(e)'
<1>1. /\ data' \in [Files -> SUBSET Entries] /\ part' \in [Files -> SUBSET Entries]
      /\ data'[n] = {} /\ part'[n] = {}
      /\ \A g \in dir : data'[g] = data[g]
  BY DEF IInv, TypeOK, Create
<1> QED BY <1>1 DEF OnDisk, Create

\* A switch needs an entry in the open file, so the number is in bounds; and
\* it is above those of the directory.
LEMMA NextFresh ==
  ASSUME IInv, MustSwitch
  PROVE  /\ next = open + 1 /\ next \notin dir
         /\ next <= 1 + restarts + Cardinality(Landed)
         /\ Landed \subseteq Entries
         /\ next \in Files /\ next + 1 \in Files \cup {MaxFile + 1}
         /\ open \in Nat \ {0} /\ restarts \in Nat
<1>1. Landed \subseteq Entries /\ Here \subseteq Landed
  BY DEF IInv, TypeOK, FlightInv, Landed
<1>2. IsFiniteSet(Landed) /\ Cardinality(Landed) \in Nat
  BY <1>1, Counts DEF IInv
<1>3. PICK e : e \in Here
  BY DEF MustSwitch, HasBytes, Here
<1>4. Landed \ Here \subseteq Landed \ {e} /\ Landed \ {e} \subseteq Entries
  BY <1>1, <1>3
<1>5. /\ IsFiniteSet(Landed \ {e}) /\ Cardinality(Landed \ {e}) \in Nat
      /\ Cardinality(Landed \ Here) \in Nat
  BY <1>4, Counts DEF IInv
<1>6. Cardinality(Landed \ Here) <= Cardinality(Landed \ {e})
  BY <1>4, <1>5, FS_Subset
<1>7. Cardinality(Landed \ {e}) = Cardinality(Landed) - 1
  BY <1>1, <1>2, <1>3, FS_RemoveElement
<1>8. open \in Nat \ {0} /\ restarts \in Nat
  BY DEF IInv, TypeOK, Files
<1>9. /\ next = open + 1 /\ next \notin dir
      /\ open <= 1 + restarts + Cardinality(Landed \ Here)
  BY <1>8 DEF IInv, NumberInv
<1>10. next <= 1 + restarts + Cardinality(Landed) /\ next \in Nat \ {0}
  BY <1>2, <1>5, <1>6, <1>7, <1>8, <1>9
<1> QED BY <1>1, <1>8, <1>9, <1>10, NumberType DEF IInv

\* The open file is replaced.
LEMMA SwitchPaylogsStep == ASSUME IInv, SwitchPaylogs PROVE IInv'
<1>1. /\ UNCHANGED <<flight, url, ripe, spc, snap, listed, seen, file, body>>
      /\ UNCHANGED <<restarts, logged, got, late, killed, failed>>
      /\ bad' = FALSE
      /\ name' = next /\ open' = next /\ next' = next + 1
      /\ dir' = dir \cup {next} /\ read' = read \ {next}
      /\ MustSwitch /\ Create(next)
  BY DEF SwitchPaylogs, Create, pass, lost
<1>2. /\ next = open + 1 /\ next \notin dir
      /\ next <= 1 + restarts + Cardinality(Landed)
      /\ next \in Files /\ next + 1 \in Files \cup {MaxFile + 1}
      /\ open \in Nat \ {0} /\ restarts \in Nat
  BY <1>1, NextFresh
<1>3. /\ data' \in [Files -> SUBSET Entries] /\ part' \in [Files -> SUBSET Entries]
      /\ data'[next] = {} /\ part'[next] = {}
      /\ \A g \in dir : data'[g] = data[g]
      /\ \A e \in Entries : OnDisk(e) => OnDisk(e)'
  BY <1>1, <1>2, CreateFresh
<1>4. TypeOK'
  BY <1>1, <1>2, <1>3 DEF IInv, TypeOK
<1>5. Landed' = Landed /\ Here' = {}
  BY <1>1, <1>3 DEF Landed, Here
<1>6. FlightInv'
  BY <1>1, <1>3, <1>5 DEF IInv, FlightInv
<1>7. NumberInv'
  <2>1. Landed' \ Here' = Landed
    BY <1>1, <1>3, <1>5
  <2>2. dir' \subseteq 1 .. open' /\ \A w \in flight' : w[1] \in 1 .. open'
    BY <1>1, <1>2 DEF IInv, NumberInv
  <2> QED BY <1>1, <1>2, <2>1, <2>2 DEF NumberInv
<1>8. PassInv'
  <2>1. \A w \in flight : w[1] # next
    BY <1>2 DEF IInv, NumberInv
  <2> QED BY <1>1, <1>2, <1>3, <2>1 DEF IInv, PassInv
<1>9. LostOnlyIfLate'
  <2>1. logged \subseteq Entries
    BY DEF IInv, TypeOK
  <2>2. \A e \in Entries :
          (InFlight(e) => InFlight(e)') /\ (Received(e) => Received(e)')
    BY <1>1 DEF InFlight, Received
  <2>3. UNCHANGED <<logged, late, killed, failed>>
    BY <1>1
  <2>4. \A e \in Entries : OnDisk(e) => OnDisk(e)'
    BY <1>3
  <2>5. \A e \in logged \ (late \cup killed \cup failed) :
          InFlight(e) \/ OnDisk(e) \/ Received(e)
    BY DEF IInv, LostOnlyIfLate
  <2> QED BY <2>1, <2>2, <2>3, <2>4, <2>5 DEF LostOnlyIfLate
<1> QED BY <1>4, <1>6, <1>7, <1>8, <1>9 DEF IInv

\* File::create fails: only the name is changed.
LEMMA SwitchFailsStep == ASSUME IInv, SwitchFails PROVE IInv'
<1>1. /\ UNCHANGED <<dir, data, part, flight, open, next, url, bad, ripe>>
      /\ UNCHANGED <<spc, snap, listed, seen, file, body>>
      /\ UNCHANGED <<restarts, logged, got, read, late, killed, failed>>
      /\ name' = next
  BY DEF SwitchFails, disk, pass, lost
<1>2. TypeOK'
  BY <1>1 DEF IInv, TypeOK
<1>3. Landed' = Landed /\ Here' = Here
  BY <1>1 DEF Landed, Here
<1>4. FlightInv' /\ NumberInv' /\ PassInv'
  BY <1>1, <1>3 DEF IInv, FlightInv, NumberInv, PassInv
<1>5. LostOnlyIfLate'
  BY <1>1 DEF IInv, LostOnlyIfLate, InFlight, OnDisk, Received
<1> QED BY <1>2, <1>4, <1>5 DEF IInv

\* The process is killed and new chooses a number.
LEMMA RestartStep == ASSUME IInv, Restart PROVE IInv'
<1> DEFINE m == HighestNum(dir) + 1
<1>1. /\ UNCHANGED <<logged, got, late, failed>>
      /\ restarts < MaxRestarts /\ restarts' = restarts + 1
      /\ Create(m) /\ open' = m /\ name' = m /\ next' = m + 1
      /\ dir' = dir \cup {m} /\ read' = read \ {m}
      /\ url' = FALSE /\ bad' = FALSE /\ ripe' = FALSE /\ flight' = {}
      /\ killed' = killed \cup {w[2] : w \in flight}
      /\ spc' = "idle" /\ snap' = None /\ listed' = {} /\ seen' = {}
      /\ file' = None /\ body' = {}
  BY DEF Restart, Create
<1>2. open \in Nat \ {0} /\ restarts \in Nat /\ MaxRestarts \in Nat
  BY PaymakerAssumption DEF IInv, TypeOK, Files
<1>3. PICK n : n = m
  OBVIOUS
<1> HIDE DEF m
<1>4. n \in 1 .. open + 1 /\ n \notin dir /\ dir \subseteq 1 .. n
  <2>1. dir \in SUBSET (1 .. open)
    BY DEF IInv, NumberInv
  <2>2. HighestNum(dir) \in 0 .. open /\ \A f \in dir : f <= HighestNum(dir)
    BY <1>2, <2>1, Highest
  <2> QED BY <1>2, <1>3, <2>1, <2>2 DEF m
<1>5. Landed' = Landed /\ Landed \subseteq Entries
  <2>1. \A e \in Entries :
          (\E w \in flight : e = w[2]) <=> ~(\A f \in Files : <<f, e>> \notin flight)
    BY DEF IInv, TypeOK
  <2> QED BY <1>1, <2>1 DEF IInv, TypeOK, Landed
<1>6. n <= 1 + restarts' + Cardinality(Landed)
  <2>1. Landed \ Here \subseteq Landed /\ Landed \ Here \subseteq Entries
    BY <1>5
  <2>2. /\ IsFiniteSet(Landed) /\ Cardinality(Landed) \in Nat
        /\ Cardinality(Landed \ Here) \in Nat
    BY <1>5, <2>1, Counts DEF IInv
  <2>3. Cardinality(Landed \ Here) <= Cardinality(Landed)
    BY <2>1, <2>2, FS_Subset
  <2>4. open <= 1 + restarts + Cardinality(Landed \ Here)
    BY DEF IInv, NumberInv
  <2> QED BY <1>1, <1>2, <1>4, <2>2, <2>3, <2>4
<1>7. n \in Files /\ n + 1 \in Files \cup {MaxFile + 1}
  <2>1. /\ Cardinality(Landed) \in Nat /\ Cardinality(Entries) \in Nat
        /\ Cardinality(Landed) <= Cardinality(Entries)
        /\ MaxFile = Cardinality(Entries) + MaxRestarts + 1
    BY <1>5, Counts DEF IInv
  <2>2. n \in Nat \ {0} /\ n <= MaxFile /\ MaxFile \in Nat
    BY <1>1, <1>2, <1>4, <1>6, <2>1
  <2> QED BY <2>2 DEF Files
<1>8. /\ data' \in [Files -> SUBSET Entries] /\ part' \in [Files -> SUBSET Entries]
      /\ data'[n] = {} /\ part'[n] = {}
      /\ \A e \in Entries : OnDisk(e) => OnDisk(e)'
  BY <1>1, <1>3, <1>4, <1>7, CreateFresh
<1>9. {w[2] : w \in flight} \subseteq logged /\ logged \subseteq Entries
  BY DEF IInv, TypeOK, FlightInv
<1>10. TypeOK'
  <2>1. restarts' \in 0 .. MaxRestarts
    BY <1>1, <1>2
  <2> QED BY <1>1, <1>3, <1>7, <1>8, <1>9, <2>1 DEF IInv, TypeOK, SubmitPC
<1>11. FlightInv'
  <2>1. Here' = {}
    BY <1>1, <1>3, <1>8 DEF Here
  <2> QED BY <1>1, <1>9, <2>1 DEF IInv, FlightInv
<1>12. NumberInv'
  <2>1. Landed' \ Here' = Landed
    BY <1>1, <1>3, <1>5, <1>8 DEF Here
  <2>2. dir' \subseteq 1 .. open'
    BY <1>1, <1>3, <1>4
  <2> QED BY <1>1, <1>3, <1>6, <2>1, <2>2 DEF NumberInv
<1>13. PassInv'
  BY <1>1 DEF PassInv
<1>14. LostOnlyIfLate'
  <2>1. \A e \in Entries : InFlight(e) => e \in killed'
    BY <1>1 DEF InFlight
  <2>2. \A e \in Entries : Received(e) => Received(e)'
    BY <1>1 DEF Received
  <2>3. killed \subseteq killed'
    BY <1>1
  <2> QED BY <1>1, <1>8, <1>9, <2>1, <2>2, <2>3 DEF IInv, LostOnlyIfLate
<1> QED BY <1>10, <1>11, <1>12, <1>13, <1>14 DEF IInv

-----------------------------------------------------------------------------
(* The theorems.                                                           *)

\* The first start.
LEMMA InitInv == Init => IInv
<1> SUFFICES ASSUME Init PROVE IInv
  OBVIOUS
<1>1. Cardinality(Entries) \in Nat /\ MaxRestarts \in Nat
  BY PaymakerAssumption, FS_CardinalityType
<1>2. MaxFile \in Nat \ {0} /\ 1 \in Files /\ 2 \in Files \cup {MaxFile + 1}
  BY <1>1 DEF MaxFile, Files
<1>3. Here = {} /\ Landed = {}
  BY <1>2 DEF Init, Landed, Here
<1>4. TypeOK
  <2>1. /\ dir \subseteq Files /\ open \in Files
        /\ data \in [Files -> SUBSET Entries] /\ part \in [Files -> SUBSET Entries]
    BY <1>2 DEF Init
  <2>2. name \in Files \cup {MaxFile + 1} /\ next \in Files \cup {MaxFile + 1}
    BY <1>2 DEF Init
  <2>3. restarts \in 0 .. MaxRestarts
    BY <1>1 DEF Init
  <2> QED BY <2>1, <2>2, <2>3 DEF Init, TypeOK, SubmitPC
<1>5. FlightInv /\ PassInv /\ LostOnlyIfLate
  BY <1>3 DEF Init, FlightInv, PassInv, LostOnlyIfLate
<1>6. NumberInv
  <2>1. Landed \ Here = {}
    BY <1>3
  <2>2. Cardinality({}) = 0
    BY FS_EmptySet
  <2>3. Cardinality(Landed \ Here) = 0
    BY <2>1, <2>2
  <2> QED BY <2>3 DEF Init, NumberInv
<1> QED BY <1>4, <1>5, <1>6 DEF IInv

\* Every step keeps the invariant.
LEMMA StepInv == IInv /\ [Next]_vars => IInv'
<1> SUFFICES ASSUME IInv, [Next]_vars PROVE IInv'
  OBVIOUS
<1>1. CASE UNCHANGED vars
  <2>1. /\ UNCHANGED <<dir, data, part, flight, open, name, next, url, bad, ripe>>
        /\ UNCHANGED <<spc, snap, listed, seen, file, body>>
        /\ UNCHANGED <<restarts, logged, got, read, late, killed, failed>>
    BY <1>1 DEF vars, disk, mut, pass, lost
  <2>2. Landed' = Landed /\ Here' = Here
    BY <2>1 DEF Landed, Here
  <2>3. TypeOK' /\ PassInv'
    BY <2>1 DEF IInv, TypeOK, PassInv
  <2>4. FlightInv' /\ NumberInv'
    BY <2>1, <2>2 DEF IInv, FlightInv, NumberInv
  <2>5. LostOnlyIfLate'
    BY <2>1 DEF IInv, LostOnlyIfLate, InFlight, OnDisk, Received
  <2> QED BY <2>3, <2>4, <2>5 DEF IInv
<1>2. CASE SubmitStep
  BY <1>2, BeginStep, ReadDirStep, NextEntryStep, LastEntryStep, ReadFileStep,
     PostOkStep, PostRefusedStep, PostFailsStep, RemoveFileStep, IoFailsStep
     DEF SubmitStep
<1>3. CASE Ripen \/ SwitchPaylogs \/ SwitchFails \/ PcUpdate \/ Restart
  BY <1>3, RipenStep, SwitchPaylogsStep, SwitchFailsStep, PcUpdateStep, RestartStep
<1>4. CASE \E e \in Entries : HandlePaylog(e)
  BY <1>4, HandlePaylogStep
<1>5. CASE \E f \in Files, e \in Entries : Land(f, e) \/ LandFails(f, e)
  BY <1>5, LandStep, LandFailsStep
<1>6. CASE HandlePaylogErr
  BY <1>6, HandlePaylogErrStep
<1> QED BY <1>1, <1>2, <1>3, <1>4, <1>5, <1>6 DEF Next

\* The invariant holds always.
LEMMA Invariant == Spec => []IInv
BY InitInv, StepInv, PTL DEF Spec

\* The variables of the pay log have their types: neither switch_paylogs nor
\* new hands out a number beyond one per entry and restart.
THEOREM TypeCorrect == Spec => []TypeOK
<1>1. IInv => TypeOK
  BY DEF IInv
<1> QED BY <1>1, Invariant, PTL

\* An entry that handle_paylog accepted is in flight, in the directory or at
\* the paymaker, or it reached its file after a pass of submit_paylogs had
\* read it, or was in flight when the process was killed, or its write failed
\* after handle_paylog had returned.
THEOREM LostOnlyLate == Spec => []LostOnlyIfLate
<1>1. IInv => LostOnlyIfLate
  BY DEF IInv
<1> QED BY <1>1, Invariant, PTL

\* File::create never truncates a file of the directory: not in
\* switch_paylogs, and not in new after a restart.
THEOREM NothingTruncated == Spec => NoFileTruncated
<1>1. ASSUME IInv, [Next]_vars
      PROVE  [\A f \in dir \cap dir' : data[f] \subseteq data'[f]]_vars
  <2>1. CASE UNCHANGED vars
    BY <2>1
  <2>2. CASE SubmitStep
    <3>1. data' = data
      BY <2>2 DEF SubmitStep, Begin, ReadDir, NextEntry, LastEntry, ReadFile, PostOk,
         PostRefused, PostFails, RemoveFile, IoFails, disk
    <3> QED BY <3>1
  <2>3. CASE \/ Ripen \/ SwitchFails \/ PcUpdate \/ HandlePaylogErr
             \/ \E e \in Entries : HandlePaylog(e)
             \/ \E f \in Files, e \in Entries : LandFails(f, e)
    <3>1. data' = data
      BY <2>3 DEF Ripen, SwitchFails, PcUpdate, HandlePaylogErr, HandlePaylog,
         LandFails, disk
    <3> QED BY <3>1
  <2>4. CASE \E f \in Files, e \in Entries : Land(f, e)
    BY <1>1, <2>4 DEF Land, IInv, TypeOK
  <2>5. CASE SwitchPaylogs
    <3>1. next \notin dir /\ next \in Files /\ Create(next)
      BY <1>1, <2>5, NextFresh DEF SwitchPaylogs
    <3> QED BY <1>1, <3>1, CreateFresh
  <2>6. CASE Restart
    <3>1. open \in Nat /\ dir \in SUBSET (1 .. open) /\ dir \subseteq Files
      BY <1>1 DEF IInv, TypeOK, Files, NumberInv
    <3>2. /\ HighestNum(dir) \in 0 .. open
          /\ \A f \in dir : f <= HighestNum(dir)
      BY <3>1, Highest
    <3>3. HighestNum(dir) + 1 \notin dir
      BY <3>1, <3>2
    <3>4. data' = [data EXCEPT ![HighestNum(dir) + 1] = {}]
      BY <2>6 DEF Restart, Create
    <3> QED BY <1>1, <3>1, <3>3, <3>4 DEF IInv, TypeOK
  <2> QED BY <1>1, <2>1, <2>2, <2>3, <2>4, <2>5, <2>6 DEF Next
<1> QED BY <1>1, Invariant, PTL DEF Spec, NoFileTruncated

=============================================================================
