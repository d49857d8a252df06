---------------------------- MODULE ImageProofs ----------------------------
(***************************************************************************)
(* Proofs about the image cache, for any number of calls, any archives and *)
(* any parts of which images consist.                                      *)
(***************************************************************************)
EXTENDS ImageCache, TLAPS

(* One case per action.                                                    *)
LEMMA NextCases ==
    ASSUME [Next]_vars
    PROVE  \/ UNCHANGED vars
           \/ \E c \in Callers :
                 \/ \E o \in {"pull", "unpack"}, b \in Archives : Start(c, o, b)
                 \/ Get(c) \/ GetChecksum(c) \/ CreateArchive(c) \/ Download(c) \/ VerifyHash(c)
                 \/ Probe(c) \/ ReopenFails(c)
                 \/ \E f \in Parts : Extract(c, f) \/ RemovePart(c, f)
                 \/ ExtractFails(c) \/ Extracted(c) \/ CheckEntry(c) \/ OpenEntry(c)
                 \/ RemoveDir(c) \/ Rename(c) \/ Clean(c) \/ Crash(c)
  BY DEF Next, Step, Finished

(* An entry has parts; its absence is a value of its own.                  *)
LEMMA EntryShape ==
    ASSUME TypeOK, Exists
    PROVE  entry.from \in Callers /\ entry.parts \in SUBSET Parts
           /\ entry = [from |-> entry.from, parts |-> entry.parts]
  BY DEF TypeOK, Exists, NoEntry

(* What a rename puts in place is an entry.                                *)
LEMMA NewEntryExists ==
    ASSUME NEW c \in Callers, NEW p
    PROVE  [from |-> c, parts |-> p] /= NoEntry
  BY ImageAssumption DEF NoEntry

(* An archive holds parts of images.                                       *)
LEMMA ArchiveParts ==
    ASSUME NEW b \in Archives
    PROVE  b.parts \in SUBSET Parts
  BY ImageAssumption DEF Bodies

(* Every step keeps the types.                                             *)
LEMMA TypeStep ==
    ASSUME TypeOK, \A c \in Callers : CallInv(c), [Next]_vars
    PROVE  TypeOK'
  <1> USE DEF TypeOK, work, removal, history, Goto, Fail, Places
  <1>1. ASSUME NEW c \in Callers, NEW o \in {"pull", "unpack"}, NEW b \in Archives, Start(c, o, b)
        PROVE  TypeOK'
    BY <1>1 DEF Start
  <1>2. ASSUME NEW c \in Callers, Get(c) PROVE TypeOK'
    BY <1>2 DEF Get
  <1>3. ASSUME NEW c \in Callers, GetChecksum(c) PROVE TypeOK'
    BY <1>3 DEF GetChecksum
  <1>4. ASSUME NEW c \in Callers, CreateArchive(c) PROVE TypeOK'
    BY <1>4 DEF CreateArchive
  <1>5. ASSUME NEW c \in Callers, Download(c) PROVE TypeOK'
    BY <1>5 DEF Download
  <1>6. ASSUME NEW c \in Callers, VerifyHash(c) PROVE TypeOK'
    BY <1>6 DEF VerifyHash
  <1>7. ASSUME NEW c \in Callers, Probe(c) PROVE TypeOK'
    BY <1>7 DEF Probe
  <1>8. ASSUME NEW c \in Callers, ReopenFails(c) PROVE TypeOK'
    BY <1>8 DEF ReopenFails
  <1>9. ASSUME NEW c \in Callers, NEW f \in Parts, Extract(c, f) PROVE TypeOK'
    <2>1. temp[c] \subseteq Parts
      BY <1>9, ArchiveParts DEF Extract, CallInv
    <2> QED BY <1>9, <2>1 DEF Extract
  <1>10. ASSUME NEW c \in Callers, NEW f \in Parts, RemovePart(c, f) PROVE TypeOK'
    <2>1. entry' \in [from : Callers, parts : SUBSET Parts] \cup {NoEntry}
      BY <1>10, EntryShape DEF RemovePart
    <2> QED BY <1>10, <2>1 DEF RemovePart
  <1>11. ASSUME NEW c \in Callers, ExtractFails(c) PROVE TypeOK'
    BY <1>11 DEF ExtractFails
  <1>12. ASSUME NEW c \in Callers, Extracted(c) PROVE TypeOK'
    BY <1>12 DEF Extracted
  <1>13. ASSUME NEW c \in Callers, CheckEntry(c) PROVE TypeOK'
    BY <1>13 DEF CheckEntry
  <1>14. ASSUME NEW c \in Callers, OpenEntry(c) PROVE TypeOK'
    BY <1>14, EntryShape DEF OpenEntry
  <1>15. ASSUME NEW c \in Callers, RemoveDir(c) PROVE TypeOK'
    BY <1>15 DEF RemoveDir
  <1>16. ASSUME NEW c \in Callers, Rename(c) PROVE TypeOK'
    <2>1. temp[c] \in SUBSET Parts
      BY <1>16, ArchiveParts DEF Rename, CallInv, Replacing
    <2> QED BY <1>16, <2>1 DEF Rename
  <1>17. ASSUME NEW c \in Callers, Clean(c) PROVE TypeOK'
    BY <1>17 DEF Clean
  <1>18. ASSUME NEW c \in Callers, Crash(c) PROVE TypeOK'
    BY <1>18 DEF Crash
  <1>19. CASE UNCHANGED vars
    BY <1>19 DEF vars
  <1> QED
    BY <1>1, <1>2, <1>3, <1>4, <1>5, <1>6, <1>7, <1>8, <1>9, <1>10, <1>11, <1>12,
       <1>13, <1>14, <1>15, <1>16, <1>17, <1>18, <1>19, NextCases

(* Every step keeps what is known of each call.                            *)
LEMMA CallStep ==
    ASSUME TypeOK, \A c \in Callers : CallInv(c), [Next]_vars
    PROVE  \A c \in Callers : CallInv(c)'
  <1> SUFFICES ASSUME NEW q \in Callers PROVE CallInv(q)'
    OBVIOUS
  <1>a. CallInv(q)
    OBVIOUS
  <1> USE <1>a DEF TypeOK, CallInv, Replacing, work, removal, history, Goto, Fail
  <1>1. ASSUME NEW c \in Callers, NEW o \in {"pull", "unpack"}, NEW b \in Archives, Start(c, o, b)
        PROVE  CallInv(q)'
    BY <1>1 DEF Start
  <1>2. ASSUME NEW c \in Callers, Get(c) PROVE CallInv(q)'
    BY <1>2 DEF Get
  <1>3. ASSUME NEW c \in Callers, GetChecksum(c) PROVE CallInv(q)'
    BY <1>3 DEF GetChecksum
  <1>4. ASSUME NEW c \in Callers, CreateArchive(c) PROVE CallInv(q)'
    BY <1>4 DEF CreateArchive
  <1>5. ASSUME NEW c \in Callers, Download(c) PROVE CallInv(q)'
    BY <1>5 DEF Download
  <1>6. ASSUME NEW c \in Callers, VerifyHash(c) PROVE CallInv(q)'
    BY <1>6 DEF VerifyHash, HashMatches
  <1>7. ASSUME NEW c \in Callers, Probe(c) PROVE CallInv(q)'
    BY <1>7 DEF Probe
  <1>8. ASSUME NEW c \in Callers, ReopenFails(c) PROVE CallInv(q)'
    BY <1>8 DEF ReopenFails
  <1>9. ASSUME NEW c \in Callers, NEW f \in Parts, Extract(c, f) PROVE CallInv(q)'
    BY <1>9 DEF Extract
  <1>10. ASSUME NEW c \in Callers, NEW f \in Parts, RemovePart(c, f) PROVE CallInv(q)'
    BY <1>10 DEF RemovePart
  <1>11. ASSUME NEW c \in Callers, ExtractFails(c) PROVE CallInv(q)'
    BY <1>11 DEF ExtractFails
  <1>12. ASSUME NEW c \in Callers, Extracted(c) PROVE CallInv(q)'
    BY <1>12 DEF Extracted
  <1>13. ASSUME NEW c \in Callers, CheckEntry(c) PROVE CallInv(q)'
    BY <1>13 DEF CheckEntry
  <1>14. ASSUME NEW c \in Callers, OpenEntry(c) PROVE CallInv(q)'
    BY <1>14 DEF OpenEntry
  <1>15. ASSUME NEW c \in Callers, RemoveDir(c) PROVE CallInv(q)'
    BY <1>15 DEF RemoveDir
  <1>16. ASSUME NEW c \in Callers, Rename(c) PROVE CallInv(q)'
    BY <1>16 DEF Rename
  <1>17. ASSUME NEW c \in Callers, Clean(c) PROVE CallInv(q)'
    BY <1>17 DEF Clean
  <1>18. ASSUME NEW c \in Callers, Crash(c) PROVE CallInv(q)'
    BY <1>18 DEF Crash, Resting
  <1>19. CASE UNCHANGED vars
    BY <1>19 DEF vars
  <1> QED
    BY <1>1, <1>2, <1>3, <1>4, <1>5, <1>6, <1>7, <1>8, <1>9, <1>10, <1>11, <1>12,
       <1>13, <1>14, <1>15, <1>16, <1>17, <1>18, <1>19, NextCases

(* Every step keeps what is known of the entry and of what is removed.     *)
LEMMA EntryStep ==
    ASSUME TypeOK, \A c \in Callers : CallInv(c), EntryInv, [Next]_vars
    PROVE  EntryInv'
  <1> USE DEF TypeOK, EntryInv, Exists, Over, Places, work, removal, history, Goto, Fail
  <1>1. ASSUME NEW c \in Callers, NEW o \in {"pull", "unpack"}, NEW b \in Archives, Start(c, o, b)
        PROVE  EntryInv'
    BY <1>1, EntryShape DEF Start
  <1>2. ASSUME NEW c \in Callers, Get(c) PROVE EntryInv'
    BY <1>2, EntryShape DEF Get
  <1>3. ASSUME NEW c \in Callers, GetChecksum(c) PROVE EntryInv'
    BY <1>3, EntryShape DEF GetChecksum
  <1>4. ASSUME NEW c \in Callers, CreateArchive(c) PROVE EntryInv'
    BY <1>4, EntryShape DEF CreateArchive
  <1>5. ASSUME NEW c \in Callers, Download(c) PROVE EntryInv'
    BY <1>5, EntryShape DEF Download
  <1>6. ASSUME NEW c \in Callers, VerifyHash(c) PROVE EntryInv'
    BY <1>6, EntryShape DEF VerifyHash
  <1>7. ASSUME NEW c \in Callers, Probe(c) PROVE EntryInv'
    BY <1>7, EntryShape DEF Probe
  <1>8. ASSUME NEW c \in Callers, ReopenFails(c) PROVE EntryInv'
    BY <1>8, EntryShape DEF ReopenFails
  <1>9. ASSUME NEW c \in Callers, NEW f \in Parts, Extract(c, f) PROVE EntryInv'
    BY <1>9, EntryShape DEF Extract
  <1>10. ASSUME NEW c \in Callers, NEW f \in Parts, RemovePart(c, f) PROVE EntryInv'
    BY <1>10, EntryShape DEF RemovePart
  <1>11. ASSUME NEW c \in Callers, ExtractFails(c) PROVE EntryInv'
    BY <1>11, EntryShape DEF ExtractFails
  <1>12. ASSUME NEW c \in Callers, Extracted(c) PROVE EntryInv'
    BY <1>12, EntryShape DEF Extracted
  <1>13. ASSUME NEW c \in Callers, CheckEntry(c) PROVE EntryInv'
    BY <1>13, EntryShape DEF CheckEntry
  <1>14. ASSUME NEW c \in Callers, OpenEntry(c) PROVE EntryInv'
    <2>1. CASE Exists
      <3>1. /\ entry.from \in Callers /\ at[entry.from] \in Over
            /\ at' = [at EXCEPT ![c] = "remove"] /\ victim' = [victim EXCEPT ![c] = entry.from]
            /\ todo' = [todo EXCEPT ![c] = entry.parts]
            /\ UNCHANGED <<entry, op, body>> /\ at[c] = "open"
        BY <1>14, <2>1, EntryShape DEF OpenEntry
      <3>2. \A q \in Callers : at[q] \in Over => at'[q] \in Over
        BY <3>1
      <3> QED BY <3>1, <3>2, ImageAssumption
    <2>2. CASE ~Exists
      BY <1>14, <2>2 DEF OpenEntry
    <2> QED BY <2>1, <2>2
  <1>15. ASSUME NEW c \in Callers, RemoveDir(c) PROVE EntryInv'
    BY <1>15, EntryShape DEF RemoveDir
  <1>16. ASSUME NEW c \in Callers, Rename(c) PROVE EntryInv'
    BY <1>16, NewEntryExists DEF Rename, CallInv, Replacing
  <1>17. ASSUME NEW c \in Callers, Clean(c) PROVE EntryInv'
    BY <1>17, EntryShape DEF Clean
  <1>18. ASSUME NEW c \in Callers, Crash(c) PROVE EntryInv'
    BY <1>18, EntryShape DEF Crash
  <1>19. CASE UNCHANGED vars
    BY <1>19 DEF vars
  <1> QED
    BY <1>1, <1>2, <1>3, <1>4, <1>5, <1>6, <1>7, <1>8, <1>9, <1>10, <1>11, <1>12,
       <1>13, <1>14, <1>15, <1>16, <1>17, <1>18, <1>19, NextCases

(* Every step keeps what holds as long as calls do not overlap.            *)
LEMMA AloneStep ==
    ASSUME TypeOK, \A c \in Callers : CallInv(c), EntryInv, AloneInv, [Next]_vars
    PROVE  AloneInv'
  <1> USE DEF TypeOK, AloneInv, Exists, IsCached, HalfEntry, Resting, work, removal, history, Goto, Fail
  <1>1. ASSUME NEW c \in Callers, NEW o \in {"pull", "unpack"}, NEW b \in Archives, Start(c, o, b)
        PROVE  AloneInv'
    <2> SUFFICES ASSUME ~overlap' PROVE AloneInv'
      OBVIOUS
    <2>1. ~overlap /\ (\A d \in Callers : at[d] \in Resting) /\ ~HalfEntry
      BY <1>1 DEF Start
    <2>2. HalfEntry' = HalfEntry
      BY <1>1, EntryShape DEF Start, EntryInv, Over
    <2>3. \A d \in Callers : at'[d] \notin Resting => d = c /\ ~IsCached
      BY <1>1, <2>1 DEF Start
    <2>4. IsCached' = IsCached
      BY <1>1 DEF Start
    <2> QED BY <2>1, <2>2, <2>3, <2>4
  <1>2. ASSUME NEW c \in Callers, Get(c) PROVE AloneInv'
    BY <1>2, EntryShape DEF Get
  <1>3. ASSUME NEW c \in Callers, GetChecksum(c) PROVE AloneInv'
    BY <1>3, EntryShape DEF GetChecksum
  <1>4. ASSUME NEW c \in Callers, CreateArchive(c) PROVE AloneInv'
    BY <1>4, EntryShape DEF CreateArchive
  <1>5. ASSUME NEW c \in Callers, Download(c) PROVE AloneInv'
    BY <1>5, EntryShape DEF Download
  <1>6. ASSUME NEW c \in Callers, VerifyHash(c) PROVE AloneInv'
    BY <1>6, EntryShape DEF VerifyHash
  <1>7. ASSUME NEW c \in Callers, Probe(c) PROVE AloneInv'
    BY <1>7, EntryShape DEF Probe
  <1>8. ASSUME NEW c \in Callers, ReopenFails(c) PROVE AloneInv'
    BY <1>8, EntryShape DEF ReopenFails
  <1>9. ASSUME NEW c \in Callers, NEW f \in Parts, Extract(c, f) PROVE AloneInv'
    BY <1>9, EntryShape DEF Extract
  <1>10. ASSUME NEW c \in Callers, NEW f \in Parts, RemovePart(c, f) PROVE AloneInv'
    BY <1>10, EntryShape DEF RemovePart
  <1>11. ASSUME NEW c \in Callers, ExtractFails(c) PROVE AloneInv'
    BY <1>11, EntryShape DEF ExtractFails
  <1>12. ASSUME NEW c \in Callers, Extracted(c) PROVE AloneInv'
    BY <1>12, EntryShape DEF Extracted
  <1>13. ASSUME NEW c \in Callers, CheckEntry(c) PROVE AloneInv'
    BY <1>13, EntryShape DEF CheckEntry
  <1>14. ASSUME NEW c \in Callers, OpenEntry(c) PROVE AloneInv'
    BY <1>14, EntryShape DEF OpenEntry
  <1>15. ASSUME NEW c \in Callers, RemoveDir(c) PROVE AloneInv'
    BY <1>15, EntryShape DEF RemoveDir
  <1>16. ASSUME NEW c \in Callers, Rename(c) PROVE AloneInv'
    BY <1>16, NewEntryExists DEF Rename, CallInv, Replacing
  <1>17. ASSUME NEW c \in Callers, Clean(c) PROVE AloneInv'
    BY <1>17, EntryShape DEF Clean
  <1>18. ASSUME NEW c \in Callers, Crash(c) PROVE AloneInv'
    BY <1>18, EntryShape DEF Crash
  <1>19. CASE UNCHANGED vars
    BY <1>19 DEF vars
  <1> QED
    BY <1>1, <1>2, <1>3, <1>4, <1>5, <1>6, <1>7, <1>8, <1>9, <1>10, <1>11, <1>12,
       <1>13, <1>14, <1>15, <1>16, <1>17, <1>18, <1>19, NextCases

(* A step that neither touches the entry nor begins or ends a removal.     *)
LEMMA QuietStep ==
    ASSUME TypeOK, UNCHANGED <<entry, victim, todo>>,
           \A q \in Callers : at'[q] = "remove" <=> at[q] = "remove"
    PROVE  GaveUp' = GaveUp /\ \A q \in Callers : Removes(q)' <=> Removes(q)
  BY DEF GaveUp, Removes, Exists

(* What a call that goes through the entry does to it.                     *)
LEMMA RemovePartCases ==
    ASSUME TypeOK, NEW c \in Callers, NEW f \in Parts, RemovePart(c, f)
    PROVE  /\ at[c] = "remove" /\ f \in todo[c] /\ UNCHANGED <<body, victim, result>>
           /\ \/ /\ Removes(c) /\ f \in entry.parts
                 /\ entry' = [from |-> entry.from, parts |-> entry.parts \ {f}]
                 /\ todo' = [todo EXCEPT ![c] = @ \ {f}] /\ UNCHANGED at
              \/ /\ Removes(c) => f \notin entry.parts
                 /\ todo' = [todo EXCEPT ![c] = @ \ {f}] /\ UNCHANGED <<entry, at>>
              \/ /\ Removes(c) => f \notin entry.parts
                 /\ at' = [at EXCEPT ![c] = "rename"] /\ UNCHANGED <<entry, todo>>
  <1>1. at[c] = "remove" /\ f \in todo[c] /\ UNCHANGED <<body, victim, result>>
    BY DEF RemovePart, work
  <1>2. CASE Exists /\ entry.from = victim[c] /\ f \in entry.parts
    BY <1>1, <1>2, EntryShape DEF RemovePart, Removes
  <1>3. CASE ~(Exists /\ entry.from = victim[c] /\ f \in entry.parts)
    BY <1>1, <1>3 DEF RemovePart, Removes, Goto
  <1> QED BY <1>1, <1>2, <1>3

(* Every step keeps what is known of removals under way.                   *)
LEMMA RemovalStep ==
    ASSUME TypeOK, EntryInv, RemovalInv, [Next]_vars
    PROVE  RemovalInv'
  <1>a. ASSUME UNCHANGED <<entry, victim, todo>>,
               \A q \in Callers : at'[q] = "remove" <=> at[q] = "remove"
        PROVE  RemovalInv'
    BY <1>a, QuietStep DEF RemovalInv
  <1> USE DEF TypeOK, work, removal, history, Goto, Fail
  <1>1. ASSUME NEW c \in Callers, NEW o \in {"pull", "unpack"}, NEW b \in Archives, Start(c, o, b)
        PROVE  RemovalInv'
    BY <1>1, <1>a DEF Start
  <1>2. ASSUME NEW c \in Callers, Get(c) PROVE RemovalInv'
    BY <1>2, <1>a DEF Get
  <1>3. ASSUME NEW c \in Callers, GetChecksum(c) PROVE RemovalInv'
    BY <1>3, <1>a DEF GetChecksum
  <1>4. ASSUME NEW c \in Callers, CreateArchive(c) PROVE RemovalInv'
    BY <1>4, <1>a DEF CreateArchive
  <1>5. ASSUME NEW c \in Callers, Download(c) PROVE RemovalInv'
    BY <1>5, <1>a DEF Download
  <1>6. ASSUME NEW c \in Callers, VerifyHash(c) PROVE RemovalInv'
    BY <1>6, <1>a DEF VerifyHash
  <1>7. ASSUME NEW c \in Callers, Probe(c) PROVE RemovalInv'
    BY <1>7, <1>a DEF Probe
  <1>8. ASSUME NEW c \in Callers, ReopenFails(c) PROVE RemovalInv'
    BY <1>8, <1>a DEF ReopenFails
  <1>9. ASSUME NEW c \in Callers, NEW f \in Parts, Extract(c, f) PROVE RemovalInv'
    BY <1>9, <1>a DEF Extract
  <1>10. ASSUME NEW c \in Callers, NEW f \in Parts, RemovePart(c, f) PROVE RemovalInv'
    <2>1. /\ at[c] = "remove" /\ f \in todo[c] /\ victim' = victim
          /\ \A q \in Callers : Removes(q) => entry.parts \subseteq todo[q]
      BY <1>10, RemovePartCases DEF RemovalInv
    <2>2. CASE /\ Removes(c) /\ f \in entry.parts
               /\ entry' = [from |-> entry.from, parts |-> entry.parts \ {f}]
               /\ todo' = [todo EXCEPT ![c] = @ \ {f}] /\ UNCHANGED at
      <3>1. Exists' /\ entry'.from = entry.from /\ entry'.parts = entry.parts \ {f}
        BY <2>2, EntryShape, NewEntryExists DEF Removes, Exists
      <3>2. \A q \in Callers : Removes(q)' <=> Removes(q)
        BY <2>1, <2>2, <3>1 DEF Removes
      <3>3. GaveUp' = GaveUp
        BY <2>1, <2>2 DEF GaveUp
      <3>4. \A q \in Callers : Removes(q) => entry'.parts \subseteq todo'[q]
        BY <2>1, <2>2, <3>1
      <3>5. todo[c] = entry.parts => todo'[c] = entry'.parts
        BY <2>2, <3>1
      <3> QED BY <2>2, <3>2, <3>3, <3>4, <3>5 DEF RemovalInv
    <2>3. CASE /\ Removes(c) => f \notin entry.parts
               /\ todo' = [todo EXCEPT ![c] = @ \ {f}] /\ UNCHANGED <<entry, at>>
      <3>1. \A q \in Callers : Removes(q)' <=> Removes(q)
        BY <2>1, <2>3 DEF Removes, Exists
      <3>2. GaveUp' = GaveUp
        BY <2>1, <2>3 DEF GaveUp
      <3>3. \A q \in Callers : Removes(q) => entry'.parts \subseteq todo'[q]
        BY <2>1, <2>3
      <3>4. Removes(c) => todo[c] /= entry.parts
        BY <2>1, <2>3
      <3> QED BY <2>3, <3>1, <3>2, <3>3, <3>4 DEF RemovalInv
    <2>4. CASE /\ Removes(c) => f \notin entry.parts
               /\ at' = [at EXCEPT ![c] = "rename"] /\ UNCHANGED <<entry, todo>>
      <3>1. \A q \in Callers : Removes(q)' <=> Removes(q) /\ q /= c
        BY <2>1, <2>4 DEF Removes, Exists
      <3>2. GaveUp' = GaveUp \cup {c}
        BY <2>1, <2>4 DEF GaveUp
      <3> QED BY <2>4, <3>1, <3>2 DEF RemovalInv
    <2> QED BY <1>10, <2>2, <2>3, <2>4, RemovePartCases
  <1>11. ASSUME NEW c \in Callers, ExtractFails(c) PROVE RemovalInv'
    BY <1>11, <1>a DEF ExtractFails
  <1>12. ASSUME NEW c \in Callers, Extracted(c) PROVE RemovalInv'
    BY <1>12, <1>a DEF Extracted
  <1>13. ASSUME NEW c \in Callers, CheckEntry(c) PROVE RemovalInv'
    BY <1>13, <1>a DEF CheckEntry
  <1>14. ASSUME NEW c \in Callers, OpenEntry(c) PROVE RemovalInv'
    <2>1. at[c] = "open" /\ todo[c] = {}
      BY <1>14 DEF OpenEntry, EntryInv, Over, Places
    <2>2. CASE Exists
      <3>1. /\ at' = [at EXCEPT ![c] = "remove"] /\ victim' = [victim EXCEPT ![c] = entry.from]
            /\ todo' = [todo EXCEPT ![c] = entry.parts] /\ UNCHANGED entry
        BY <1>14, <2>2 DEF OpenEntry
      <3>2. \A q \in Callers : Removes(q)' <=> Removes(q) \/ q = c
        BY <2>1, <2>2, <3>1, EntryShape DEF Removes, Exists
      <3>3. GaveUp' = GaveUp
        BY <2>1, <3>1 DEF GaveUp
      <3>4. ~Removes(c) /\ c \notin GaveUp
        BY <2>1 DEF Removes, GaveUp
      <3>5. ASSUME NEW q \in Callers, q /= c PROVE todo'[q] = todo[q]
        BY <3>1, <3>5
      <3>6. todo'[c] = entry'.parts
        BY <2>2, <3>1, EntryShape
      <3> QED BY <3>1, <3>2, <3>3, <3>4, <3>5, <3>6 DEF RemovalInv
    <2>3. CASE ~Exists
      BY <1>14, <1>a, <2>1, <2>3 DEF OpenEntry
    <2> QED BY <2>2, <2>3
  <1>15. ASSUME NEW c \in Callers, RemoveDir(c) PROVE RemovalInv'
    <2>1. at[c] = "remove" /\ todo[c] = {} /\ at' = [at EXCEPT ![c] = "rename"]
          /\ UNCHANGED <<victim, todo>>
      BY <1>15 DEF RemoveDir
    <2>2. CASE Exists /\ entry.parts = {}
      BY <1>15, <2>2 DEF RemoveDir, RemovalInv, Removes, Exists
    <2>3. CASE ~(Exists /\ entry.parts = {})
      <3>1. entry' = entry
        BY <1>15, <2>3 DEF RemoveDir
      <3>2. ~Removes(c)
        BY <2>1, <2>3 DEF RemovalInv, Removes
      <3>3. \A q \in Callers : Removes(q)' <=> Removes(q)
        BY <2>1, <3>1, <3>2 DEF Removes, Exists
      <3>4. GaveUp' = GaveUp
        BY <2>1 DEF GaveUp
      <3> QED BY <2>1, <3>1, <3>3, <3>4 DEF RemovalInv
    <2> QED BY <2>2, <2>3
  <1>16. ASSUME NEW c \in Callers, Rename(c) PROVE RemovalInv'
    <2>1. at[c] = "rename" /\ at' = [at EXCEPT ![c] = "clean"] /\ UNCHANGED <<victim, todo>>
      BY <1>16 DEF Rename
    <2>2. CASE entry' = entry
      BY <1>a, <2>1, <2>2
    <2>3. CASE entry' = [from |-> c, parts |-> temp[c]]
      <3>1. \A q \in Callers : victim[q] /= c
        BY <2>1, ImageAssumption DEF EntryInv, Over
      <3> QED BY <2>1, <2>3, <3>1 DEF RemovalInv, Removes
    <2> QED BY <1>16, <2>2, <2>3 DEF Rename
  <1>17. ASSUME NEW c \in Callers, Clean(c) PROVE RemovalInv'
    BY <1>17, <1>a DEF Clean
  <1>18. ASSUME NEW c \in Callers, Crash(c) PROVE RemovalInv'
    <2>1. at' = [at EXCEPT ![c] = "crashed"] /\ UNCHANGED <<entry, victim, todo>>
      BY <1>18 DEF Crash
    <2>2. \A q \in Callers : Removes(q)' <=> Removes(q) /\ q /= c
      BY <2>1 DEF Removes, Exists
    <2>3. GaveUp \subseteq GaveUp' /\ (todo[c] /= {} => c \in GaveUp')
      BY <2>1 DEF GaveUp
    <2>4. Removes(c) => entry.parts \subseteq todo[c]
      BY DEF RemovalInv
    <2> QED BY <2>1, <2>2, <2>3, <2>4 DEF RemovalInv
  <1>19. CASE UNCHANGED vars
    BY <1>19, <1>a DEF vars
  <1> QED
    BY <1>1, <1>2, <1>3, <1>4, <1>5, <1>6, <1>7, <1>8, <1>9, <1>10, <1>11, <1>12,
       <1>13, <1>14, <1>15, <1>16, <1>17, <1>18, <1>19, NextCases

(* Every step keeps that what was promised is there or about to be.        *)
LEMMA KeptStep ==
    ASSUME TypeOK, \A c \in Callers : CallInv(c), EntryInv, RemovalInv, KeptInv, [Next]_vars
    PROVE  KeptInv'
  <1> DEFINE Alive == \A q \in Callers : at[q] /= "crashed"
             Two   == \E q, d \in GaveUp : q /= d
  <1>a. ASSUME UNCHANGED <<entry, victim, todo>>,
               Exists => body'[entry.from] = body[entry.from],
               \A q \in Callers : /\ at'[q] = "remove" <=> at[q] = "remove"
                                  /\ at[q] = "crashed" => at'[q] = "crashed"
                                  /\ at[q] = "rename" => at'[q] = "rename"
                                  /\ result'[q] = "ok" => result[q] = "ok" \/ Exists
        PROVE  KeptInv'
    <2>1. GaveUp' = GaveUp /\ \A q \in Callers : Removes(q)' <=> Removes(q)
      BY <1>a, QuietStep
    <2> QED BY <1>a, <2>1 DEF KeptInv, Exists
  <1> USE DEF TypeOK, work, removal, history, Goto, Fail
  <1>1. ASSUME NEW c \in Callers, NEW o \in {"pull", "unpack"}, NEW b \in Archives, Start(c, o, b)
        PROVE  KeptInv'
    <2>1. Exists => body'[entry.from] = body[entry.from]
      BY <1>1, EntryShape DEF Start, EntryInv, Over
    <2> QED BY <1>1, <1>a, <2>1 DEF Start, IsCached
  <1>2. ASSUME NEW c \in Callers, Get(c) PROVE KeptInv'
    BY <1>2, <1>a DEF Get
  <1>3. ASSUME NEW c \in Callers, GetChecksum(c) PROVE KeptInv'
    BY <1>3, <1>a DEF GetChecksum
  <1>4. ASSUME NEW c \in Callers, CreateArchive(c) PROVE KeptInv'
    BY <1>4, <1>a DEF CreateArchive
  <1>5. ASSUME NEW c \in Callers, Download(c) PROVE KeptInv'
    BY <1>5, <1>a DEF Download
  <1>6. ASSUME NEW c \in Callers, VerifyHash(c) PROVE KeptInv'
    BY <1>6, <1>a DEF VerifyHash
  <1>7. ASSUME NEW c \in Callers, Probe(c) PROVE KeptInv'
    BY <1>7, <1>a DEF Probe
  <1>8. ASSUME NEW c \in Callers, ReopenFails(c) PROVE KeptInv'
    BY <1>8, <1>a DEF ReopenFails
  <1>9. ASSUME NEW c \in Callers, NEW f \in Parts, Extract(c, f) PROVE KeptInv'
    BY <1>9, <1>a DEF Extract
  <1>10. ASSUME NEW c \in Callers, NEW f \in Parts, RemovePart(c, f) PROVE KeptInv'
    <2> SUFFICES ASSUME Alive' PROVE KeptInv'
      BY DEF KeptInv
    <2>1. /\ at[c] = "remove" /\ f \in todo[c] /\ UNCHANGED <<body, victim, result>>
      BY <1>10, RemovePartCases
    <2>2. CASE /\ Removes(c) /\ f \in entry.parts
               /\ entry' = [from |-> entry.from, parts |-> entry.parts \ {f}]
               /\ todo' = [todo EXCEPT ![c] = @ \ {f}] /\ UNCHANGED at
      <3>1. Exists' /\ entry'.from = entry.from
        BY <2>2, EntryShape, NewEntryExists DEF Removes, Exists
      <3> QED BY <2>1, <2>2, <3>1 DEF KeptInv, Removes
    <2>3. CASE todo' = [todo EXCEPT ![c] = @ \ {f}] /\ UNCHANGED <<entry, at>>
      <3>1. GaveUp' = GaveUp /\ \A q \in Callers : Removes(q)' <=> Removes(q)
        BY <2>1, <2>3 DEF GaveUp, Removes, Exists
      <3> QED BY <2>1, <2>3, <3>1 DEF KeptInv, Exists
    <2>4. CASE /\ Removes(c) => f \notin entry.parts
               /\ at' = [at EXCEPT ![c] = "rename"] /\ UNCHANGED <<entry, todo>>
      <3>1. \A q \in Callers : Removes(q)' <=> Removes(q) /\ q /= c
        BY <2>1, <2>4 DEF Removes, Exists
      <3>2. GaveUp' = GaveUp \cup {c} /\ c \notin GaveUp
        BY <2>1, <2>4 DEF GaveUp
      <3>3. Removes(c) => \/ entry'.parts = {} /\ at'[c] = "rename"
                          \/ (\E d \in Callers : Removes(d)') \/ Two'
        BY <2>1, <2>4, <3>1, <3>2 DEF RemovalInv
      <3>4. Two => Two'
        BY <3>2
      <3>5. Alive /\ at'[c] = "rename"
        BY <2>1, <2>4
      <3>6. \A q \in Callers : at[q] = "rename" => at'[q] = "rename"
        BY <2>1, <2>4
      <3> QED BY <2>1, <2>4, <3>1, <3>3, <3>4, <3>5, <3>6 DEF KeptInv, Exists
    <2> QED BY <1>10, <2>2, <2>3, <2>4, RemovePartCases
  <1>11. ASSUME NEW c \in Callers, ExtractFails(c) PROVE KeptInv'
    BY <1>11, <1>a DEF ExtractFails
  <1>12. ASSUME NEW c \in Callers, Extracted(c) PROVE KeptInv'
    BY <1>12, <1>a DEF Extracted
  <1>13. ASSUME NEW c \in Callers, CheckEntry(c) PROVE KeptInv'
    BY <1>13, <1>a DEF CheckEntry
  <1>14. ASSUME NEW c \in Callers, OpenEntry(c) PROVE KeptInv'
    <2>1. CASE Exists
      <3>1. Removes(c)' /\ Exists'
        BY <1>14, <2>1, EntryShape DEF OpenEntry, Removes, Exists
      <3> QED BY <3>1 DEF KeptInv
    <2>2. CASE ~Exists
      BY <1>14, <1>a, <2>2 DEF OpenEntry
    <2> QED BY <2>1, <2>2
  <1>15. ASSUME NEW c \in Callers, RemoveDir(c) PROVE KeptInv'
    <2>1. /\ at[c] = "remove" /\ todo[c] = {} /\ at' = [at EXCEPT ![c] = "rename"]
          /\ UNCHANGED <<victim, todo, body, result>>
      BY <1>15 DEF RemoveDir
    <2>2. CASE Exists /\ entry.parts = {}
      <3>1. ~Exists' /\ at'[c] = "rename"
        BY <1>15, <2>2 DEF RemoveDir, Exists
      <3> QED BY <3>1 DEF KeptInv
    <2>3. CASE ~(Exists /\ entry.parts = {})
      <3>1. entry' = entry
        BY <1>15, <2>3 DEF RemoveDir
      <3>2. ~Removes(c)
        BY <2>1, <2>3 DEF RemovalInv, Removes
      <3>3. \A q \in Callers : Removes(q)' <=> Removes(q)
        BY <2>1, <3>1, <3>2 DEF Removes, Exists
      <3>4. GaveUp' = GaveUp
        BY <2>1 DEF GaveUp
      <3>5. (Alive' => Alive) /\ \A q \in Callers : at[q] = "rename" => at'[q] = "rename"
        BY <2>1
      <3> QED BY <2>1, <3>1, <3>3, <3>4, <3>5 DEF KeptInv, Exists
    <2> QED BY <2>2, <2>3
  <1>16. ASSUME NEW c \in Callers, Rename(c) PROVE KeptInv'
    <2>1. at[c] = "rename" /\ at' = [at EXCEPT ![c] = "clean"] /\ UNCHANGED <<victim, todo, body>>
      BY <1>16 DEF Rename
    <2>2. CASE Exists /\ entry.parts /= {}
      <3>1. entry' = entry /\ Exists'
        BY <1>16, <2>2 DEF Rename, Exists
      <3>2. GaveUp' = GaveUp /\ \A q \in Callers : Removes(q)' <=> Removes(q)
        BY <2>1, <3>1, QuietStep
      <3>3. Alive' => Alive
        BY <2>1
      <3> QED BY <2>1, <2>2, <3>1, <3>2, <3>3 DEF KeptInv
    <2>3. CASE ~(Exists /\ entry.parts /= {})
      <3>1. entry' = [from |-> c, parts |-> temp[c]] /\ temp[c] = body[c].parts
        BY <1>16, <2>3 DEF Rename, CallInv, Replacing
      <3>2. Exists' /\ entry'.parts = body'[entry'.from].parts
        BY <2>1, <3>1, NewEntryExists DEF Exists
      <3> QED BY <3>2 DEF KeptInv
    <2> QED BY <2>2, <2>3
  <1>17. ASSUME NEW c \in Callers, Clean(c) PROVE KeptInv'
    BY <1>17, <1>a DEF Clean
  <1>18. ASSUME NEW c \in Callers, Crash(c) PROVE KeptInv'
    BY <1>18 DEF Crash, KeptInv
  <1>19. CASE UNCHANGED vars
    BY <1>19, <1>a DEF vars
  <1> QED
    BY <1>1, <1>2, <1>3, <1>4, <1>5, <1>6, <1>7, <1>8, <1>9, <1>10, <1>11, <1>12,
       <1>13, <1>14, <1>15, <1>16, <1>17, <1>18, <1>19, NextCases

(* The conjunction is inductive.                                           *)
LEMMA InitInv ==
    ASSUME Init
    PROVE  TypeOK /\ CacheInv
  <1> USE DEF Init, NoDir, NoEntry
  <1>1. TypeOK
    BY DEF TypeOK, Places
  <1>2. (\A c \in Callers : CallInv(c)) /\ EntryInv
    BY DEF CallInv, Replacing, EntryInv, Exists, Over, Places
  <1>3. AloneInv /\ RemovalInv /\ KeptInv
    BY DEF AloneInv, Resting, IsCached, HalfEntry, Exists, RemovalInv, Removes, KeptInv
  <1> QED BY <1>1, <1>2, <1>3 DEF CacheInv

(* Every step of every call, and the kill of one, keeps the conjunction.   *)
LEMMA StepInv ==
    ASSUME TypeOK /\ CacheInv, [Next]_vars
    PROVE  TypeOK' /\ CacheInv'
  BY TypeStep, CallStep, EntryStep, AloneStep, RemovalStep, KeptStep DEF CacheInv

(* However the calls of pull_image and unpack_archive overlap, fail or are *)
(* killed, every call, the entry and the removals under way stay           *)
(* consistent with one another.                                            *)
THEOREM CacheInvariant == Spec => [](TypeOK /\ CacheInv)
  BY InitInv, StepInv, PTL DEF Spec

(* The state of the cache and of every call has its type.                  *)
THEOREM TypeCorrect == Spec => []TypeOK
  BY CacheInvariant, PTL

(* As long as calls of pull_image and unpack_archive do not overlap, an    *)
(* entry that is_cached takes for an image is a complete extraction,       *)
(* wherever earlier calls failed or were killed.                           *)
THEOREM CachesComplete == Spec => []CachedComplete
  <1>1. CacheInv => CachedComplete
    BY DEF CacheInv, AloneInv, CachedComplete
  <1> QED BY <1>1, CacheInvariant, PTL

(* What a pull with a checksum has put into the cache is what the checksum *)
(* vouches for, however many calls overlap, fail or are killed.            *)
THEOREM CachesGenuine == Spec => []CachedGenuine
  <1>1. CacheInv => CachedGenuine
    BY DEF CacheInv, EntryInv, CachedGenuine
  <1> QED BY <1>1, CacheInvariant, PTL

(* When all calls have returned and one of them Ok, there is an entry, and *)
(* it is complete unless two calls hindered one another in removing it.    *)
THEOREM KeepsCache == Spec => []CacheKept
  <1>1. TypeOK /\ CacheInv => CacheKept
    <2> SUFFICES ASSUME TypeOK, CacheInv, \A c \in Callers : at[c] = "done",
                        \E c \in Callers : result[c] = "ok"
                 PROVE  CacheKept
      BY DEF CacheKept
    <2>1. \A c \in Callers : ~Removes(c) /\ at[c] \notin {"rename", "crashed"}
      BY DEF Removes
    <2> QED BY <2>1 DEF CacheInv, KeptInv, CacheKept
  <1> QED BY <1>1, CacheInvariant, PTL

(* A call that is over has removed its download and its temporary          *)
(* directory on every path but the one on which the archive could not be   *)
(* opened again.                                                           *)
THEOREM LeavesNoLitter == Spec => []NoLitter
  <1>1. CacheInv => NoLitter
    BY DEF CacheInv, CallInv, NoLitter
  <1> QED BY <1>1, CacheInvariant, PTL

=============================================================================
