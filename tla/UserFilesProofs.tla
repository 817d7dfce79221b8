--------------------------- MODULE UserFilesProofs ---------------------------
(***************************************************************************)
(* The shared files of one user for any number of processes, requests and  *)
(* days: one API token, no request that undoes another's edit, no          *)
(* confirmed event that is lost before its time, and none that a follower  *)
(* of the log misses or sees out of order, unless doctor or a writer that  *)
(* is a day late takes the file away; and, of `kongtrol init`, what it     *)
(* saves and what its review shows, for any file it begins with.           *)
(***************************************************************************)
EXTENDS UserFiles, FiniteSetTheorems, SequenceTheorems, TLAPS

\* Between the creation of the file and the end of its creator there is one
\* creator, and the file is there, empty before it is written.
TokenOK ==
    /\ tokenFile \in Procs \union {NoFile, Invalid}
    /\ token \in [Procs -> Procs \union {NoToken}]
    /\ tokenAt \in [Procs -> Stages]
    /\ withdrawn \subseteq Procs
    /\ \A p \in Procs :
          /\ tokenAt[p] \in {"write", "sync", "undo"} =>
                /\ tokenFile # NoFile
                /\ \A q \in Procs : tokenAt[q] \in {"write", "sync", "undo"} => q = p
          /\ tokenAt[p] = "write" => tokenFile = Invalid
          /\ tokenAt[p] = "sync" => tokenFile = p
          /\ tokenAt[p] = "undo" => tokenFile \in {Invalid, p}

TokenInv == TokenOK /\ OneToken

\* A request that has loaded holds the mutex, and what has changed in the file
\* since was changed by commands.
EditsOK ==
    /\ editing \in [Editors -> {"idle", "loaded", "done", "refused"}]
    /\ DOMAIN copy = Editors
    /\ \A e \in Requests : editing[e] = "loaded" =>
          /\ preferencesMu = e
          /\ \A f \in Fields : copy[e][f] # prefs[f] => prefs[f] \notin Requests

EditsInv == EditsOK /\ RequestsKeepEdits

LogStages == {"off", "ready", "open", "list", "prune", "write"}

\* A file that was removed under its writer, or that is listed to be removed, is
\* older than yesterday's or newer than the date of the writer that removes it.
AuditOK ==
    /\ today \in Days
    /\ logFile \in [Days -> Seq(Nat) \union {Missing}]
    /\ opened \in [Writers -> Days \union {Closed}]
    /\ logging \in [Writers -> LogStages]
    /\ inLog \subseteq Writers /\ unlinked \subseteq Writers
    /\ clock \in [Writers -> Days] /\ doomed \in [Writers -> SUBSET Days]
    /\ logged \subseteq Days \X Nat /\ IsFiniteSet(logged)
    /\ overrun \subseteq Days
    /\ fixing \in Days \union {Closed}
    /\ \A w \in Writers :
          /\ clock[w] <= today
          /\ logging[w] \in {"list", "prune", "write"} => opened[w] # Closed
          /\ logging[w] # "prune" => doomed[w] = {}
          /\ \A d \in doomed[w] : ~Kept(d, clock[w])
          /\ opened[w] # Closed /\ w \notin unlinked => logFile[opened[w]] # Missing
          /\ opened[w] # Closed /\ w \in unlinked =>
                opened[w] + 1 < today \/ opened[w] \in overrun

AuditInv == AuditOK /\ ConfirmedIsKept
----------------------------------------------------------------------------
(* The token *)

LEMMA TokenStepInv ==
    ASSUME TokenInv, NEW p \in Procs, TokenStep(p)
    PROVE  TokenInv'
<1> USE TokenAssumption DEF TokenInv, TokenOK, OneToken, Goes, Holds, Stages
<1>1. CASE ReadToken(p)
  BY <1>1 DEF ReadToken
<1>2. CASE CreateToken(p)
  BY <1>2 DEF CreateToken
<1>3. CASE WaitForToken(p)
  <2>1. tokenAt' = [tokenAt EXCEPT ![p] = "done"] \/ tokenAt' = [tokenAt EXCEPT ![p] = "failed"]
        \/ tokenAt' = [tokenAt EXCEPT ![p] = "wait"]
    BY <1>3 DEF WaitForToken
  <2>2. tokenAt[p] = "wait" /\ UNCHANGED <<tokenFile, withdrawn>>
    BY <1>3 DEF WaitForToken
  <2>3. token' = token \/ (token' = [token EXCEPT ![p] = tokenFile] /\ tokenFile \in Procs)
    BY <1>3 DEF WaitForToken
  <2>4. QED
    BY <2>1, <2>2, <2>3
<1>4. CASE WriteToken(p)
  BY <1>4 DEF WriteToken
<1>5. CASE SyncToken(p)
  BY <1>5 DEF SyncToken
<1>6. CASE UndoToken(p)
  <2>1. TokenOK'
    BY <1>6 DEF UndoToken
  <2>2. OneToken'
    BY <1>6 DEF UndoToken
  <2>3. QED
    BY <2>1, <2>2
<1>7. CASE DieCreating(p)
  BY <1>7 DEF DieCreating
<1>8. QED
  BY <1>1, <1>2, <1>3, <1>4, <1>5, <1>6, <1>7 DEF TokenStep

\* Every process that holds a token holds the one in the file, or one that its
\* creator took back.  (control.go LoadOrCreateAPIToken)
THEOREM TokenIsShared == Spec => []OneToken
<1>1. Init => TokenInv
  BY TokenAssumption DEF Init, InitToken, TokenInv, TokenOK, OneToken, Stages
<1>2. TokenInv /\ [Next]_vars => TokenInv'
  <2> SUFFICES ASSUME TokenInv, [Next]_vars PROVE TokenInv'
    OBVIOUS
  <2>1. ASSUME NEW p \in Procs, Token(p) PROVE TokenInv'
    BY <2>1, TokenStepInv DEF Token
  <2>2. CASE UNCHANGED tokenVars
    BY <2>2 DEF tokenVars, TokenInv, TokenOK, OneToken
  <2>3. QED
    BY <2>1, <2>2 DEF Next, Log, Edit, Others, Setup, vars
<1>3. QED
  BY <1>1, <1>2, PTL DEF Spec, TokenInv
----------------------------------------------------------------------------
(* The preferences *)

LEMMA PreferencesStepInv ==
    ASSUME EditsInv, NEW e \in Editors, PreferencesStep(e)
    PROVE  EditsInv'
<1> USE EditorsAssumption DEF EditsInv, EditsOK, RequestsKeepEdits, Moves, Editors
<1>1. CASE LoadPreferences(e)
  <2>1. editing' = [editing EXCEPT ![e] = "loaded"] /\ copy' = [copy EXCEPT ![e] = prefs]
        /\ UNCHANGED <<prefs, overwritten>>
    BY <1>1 DEF LoadPreferences
  <2>2. IF e \in Requests THEN preferencesMu = Unlocked /\ preferencesMu' = e
                          ELSE preferencesMu' = preferencesMu
    BY <1>1 DEF LoadPreferences, Enters
  <2>3. QED
    BY <2>1, <2>2
<1>2. CASE RefusePreferences(e)
  <2>1. /\ editing' = [editing EXCEPT ![e] = "refused"] /\ copy' = [copy EXCEPT ![e] = NoCopy]
        /\ UNCHANGED <<prefs, overwritten>>
        /\ preferencesMu' = IF preferencesMu = e THEN Unlocked ELSE preferencesMu
    BY <1>2 DEF RefusePreferences, Leaves
  <2>2. QED
    BY <2>1
<1>3. CASE SavePreferences(e)
  <2>1. /\ editing' = [editing EXCEPT ![e] = "done"] /\ copy' = [copy EXCEPT ![e] = NoCopy]
        /\ preferencesMu' = IF preferencesMu = e THEN Unlocked ELSE preferencesMu
        /\ editing[e] = "loaded"
    BY <1>3 DEF SavePreferences, Leaves
  <2>2. PICK edit \in EditsOf(e) :
          LET stale == {f \in Fields \ edit : copy[e][f] # prefs[f]}
          IN  /\ prefs' = [f \in Fields |-> IF f \in edit \union stale THEN e ELSE prefs[f]]
              /\ overwritten' = overwritten \union {<<prefs[f], e>> : f \in stale}
    BY <1>3 DEF SavePreferences
  <2>3. RequestsKeepEdits'
    BY <2>1, <2>2
  <2>4. ASSUME NEW d \in Requests, editing'[d] = "loaded",
               NEW f \in Fields, copy'[d][f] # prefs'[f]
        PROVE  prefs'[f] \notin Requests
    <3>1. d # e /\ editing[d] = "loaded" /\ preferencesMu = d /\ copy'[d] = copy[d]
      BY <2>1, <2>4
    <3>2. e \notin Requests
      BY <2>1, <3>1
    <3>3. prefs'[f] = e \/ prefs'[f] = prefs[f]
      BY <2>2
    <3>4. QED
      BY <2>4, <3>1, <3>2, <3>3
  <2>5. EditsOK'
    BY <2>1, <2>4
  <2>6. QED
    BY <2>3, <2>5
<1>4. QED
  BY <1>1, <1>2, <1>3 DEF PreferencesStep

\* Two requests of the daemon never undo each other's edit, whatever the
\* commands do in between.  (preferences.go UpdatePreferences)
THEOREM RequestsAreSerial == Spec => []RequestsKeepEdits
<1>1. Init => EditsInv
  <2> SUFFICES ASSUME InitPreferences PROVE EditsInv
    BY DEF Init
  <2>1. EditsOK
    <3>1. editing \in [Editors -> {"idle", "loaded", "done", "refused"}] /\ DOMAIN copy = Editors
      BY DEF InitPreferences
    <3>2. \A e \in Requests : editing[e] = "idle"
      BY DEF InitPreferences, Editors
    <3>3. QED
      BY <3>1, <3>2 DEF EditsOK
  <2>2. RequestsKeepEdits
    BY DEF InitPreferences, RequestsKeepEdits
  <2>3. QED
    BY <2>1, <2>2 DEF EditsInv
<1>2. EditsInv /\ [Next]_vars => EditsInv'
  <2> SUFFICES ASSUME EditsInv, [Next]_vars PROVE EditsInv'
    OBVIOUS
  <2>1. ASSUME NEW e \in Editors, Edit(e) PROVE EditsInv'
    BY <2>1, PreferencesStepInv DEF Edit
  <2>2. CASE UNCHANGED prefVars
    BY <2>2 DEF prefVars, EditsInv, EditsOK, RequestsKeepEdits
  <2>3. QED
    BY <2>1, <2>2 DEF Next, Log, Token, Others, Setup, vars
<1>3. QED
  BY <1>1, <1>2, PTL DEF Spec, EditsInv
----------------------------------------------------------------------------
(* The audit log *)

LEMMA ContentType ==
    ASSUME AuditOK, NEW d \in Days
    PROVE  Content(d) \in Seq(Nat) /\ Len(Content(d)) \in Nat
<1>1. <<>> \in Seq(Nat)
  OBVIOUS
<1>2. QED
  BY <1>1 DEF AuditOK, Content

\* The part of a file that is there stays where it is.
Grows(d) ==
    /\ Len(Content(d)) <= Len(Content(d)')
    /\ \A i \in 1..Len(Content(d)) : Content(d)'[i] = Content(d)[i]

\* The files that must be kept.
Due(d) == d \in Days /\ d + 1 >= today /\ d \notin overrun

LEMMA SameGrows ==
    ASSUME AuditOK, NEW d \in Days, Content(d)' = Content(d)
    PROVE  Grows(d)
BY ContentType DEF Grows

LEMMA GrownHolds ==
    ASSUME AuditOK, AuditOK', NEW d \in Days, Grows(d)
    PROVE  ToSet(Content(d)) \subseteq ToSet(Content(d)')
<1>1. Content(d) \in Seq(Nat) /\ Content(d)' \in Seq(Nat)
  BY ContentType DEF AuditOK, Content
<1>2. \A i \in DOMAIN Content(d) : i \in DOMAIN Content(d)' /\ Content(d)'[i] = Content(d)[i]
  BY <1>1 DEF Grows
<1>3. QED
  BY <1>2 DEF ToSet

LEMMA OpeningGrows ==
    ASSUME AuditOK, NEW w \in Writers, OpenDay(w)
    PROVE  AuditOK' /\ \A d \in Days : Grows(d)
<1> USE AuditAssumption DEF AuditOK, LogStages
<1>1. /\ logging[w] = "open" /\ clock[w] \in Days
      /\ logFile' = [logFile EXCEPT ![clock[w]] = Content(clock[w])]
      /\ opened' = [opened EXCEPT ![w] = clock[w]]
      /\ unlinked' = unlinked \ {w}
      /\ logging' = [logging EXCEPT ![w] = "list"]
      /\ UNCHANGED <<today, inLog, clock, doomed, logged, erased, overrun, fixing>>
  BY DEF OpenDay, Turns
<1>2. Content(clock[w]) \in Seq(Nat) /\ Content(clock[w]) # Missing
  BY <1>1, ContentType
<1>3. \A d \in Days : logFile[d] # Missing => logFile'[d] # Missing
  BY <1>1, <1>2
<1>4. \A d \in Days : Content(d)' = Content(d)
  BY <1>1, <1>2 DEF Content
<1>5. ASSUME NEW v \in Writers
      PROVE  /\ clock'[v] <= today'
             /\ logging'[v] \in {"list", "prune", "write"} => opened'[v] # Closed
             /\ logging'[v] # "prune" => doomed'[v] = {}
             /\ \A d \in doomed'[v] : ~Kept(d, clock'[v])
             /\ opened'[v] # Closed /\ v \notin unlinked' => logFile'[opened'[v]] # Missing
             /\ opened'[v] # Closed /\ v \in unlinked' =>
                   opened'[v] + 1 < today' \/ opened'[v] \in overrun'
  <2>1. CASE v = w
    <3>1. opened'[w] = clock[w] /\ w \notin unlinked' /\ doomed[w] = {} /\ clock[w] \in Nat
          /\ logFile'[clock[w]] # Missing
      BY <1>1, <1>2 DEF Days
    <3>2. QED
      BY <1>1, <2>1, <3>1 DEF Days
  <2>2. CASE v # w
    <3>1. opened'[v] = opened[v] /\ logging'[v] = logging[v] /\ (v \in unlinked' <=> v \in unlinked)
      BY <1>1, <2>2
    <3>2. QED
      BY <1>1, <1>3, <3>1
  <2>3. QED
    BY <2>1, <2>2
<1>6. QED
  <2>1. /\ logFile' \in [Days -> Seq(Nat) \union {Missing}]
        /\ opened' \in [Writers -> Days \union {Closed}]
        /\ logging' \in [Writers -> LogStages]
        /\ unlinked' \subseteq Writers
    BY <1>1, <1>2
  <2>2. AuditOK'
    BY <1>1, <1>5, <2>1
  <2>3. QED
    BY <1>4, <2>2, SameGrows

LEMMA RemovingGrows ==
    ASSUME AuditOK, NEW w \in Writers, NEW e \in Days, RemoveOld(w, e)
    PROVE  AuditOK' /\ \A d \in Days : Due(d)' => Grows(d)
<1> USE AuditAssumption DEF AuditOK, LogStages
<1>1. /\ logging[w] = "prune" /\ e \in doomed[w] /\ ~Kept(e, clock[w])
      /\ logFile' = [logFile EXCEPT ![e] = Missing]
      /\ doomed' = [doomed EXCEPT ![w] = doomed[w] \ {e}]
      /\ unlinked' = unlinked \union {v \in Writers : opened[v] = e}
      /\ overrun' = IF e > clock[w] THEN overrun \union {e} ELSE overrun
      /\ UNCHANGED <<today, opened, logging, inLog, clock, logged, erased, fixing>>
  BY DEF RemoveOld
<1>2. e \in Nat /\ today \in Nat /\ clock[w] \in Nat /\ clock[w] <= today
  BY DEF Days
<1>3. e + 1 < today \/ e \in overrun'
  BY <1>1, <1>2 DEF Kept
<1>4. overrun \subseteq overrun' /\ overrun' \subseteq Days
  BY <1>1
<1>5. \A d \in Days : d # e => logFile'[d] = logFile[d]
  BY <1>1
<1>6. doomed' \in [Writers -> SUBSET Days]
      /\ \A v \in Writers : doomed'[v] \subseteq doomed[v]
  BY <1>1
<1>7. ASSUME NEW v \in Writers
      PROVE  /\ clock'[v] <= today'
             /\ logging'[v] \in {"list", "prune", "write"} => opened'[v] # Closed
             /\ logging'[v] # "prune" => doomed'[v] = {}
             /\ \A d \in doomed'[v] : ~Kept(d, clock'[v])
             /\ opened'[v] # Closed /\ v \notin unlinked' => logFile'[opened'[v]] # Missing
             /\ opened'[v] # Closed /\ v \in unlinked' =>
                   opened'[v] + 1 < today' \/ opened'[v] \in overrun'
  <2>1. logging'[v] # "prune" => doomed'[v] = {}
    BY <1>1, <1>6
  <2>2. \A d \in doomed'[v] : ~Kept(d, clock'[v])
    BY <1>1, <1>6
  <2>3. opened'[v] # Closed /\ v \notin unlinked' => logFile'[opened'[v]] # Missing
    BY <1>1, <1>5
  <2>4. opened'[v] # Closed /\ v \in unlinked' =>
           opened'[v] + 1 < today' \/ opened'[v] \in overrun'
    BY <1>1, <1>3, <1>4
  <2>5. QED
    BY <1>1, <2>1, <2>2, <2>3, <2>4
<1>8. AuditOK'
  <2>1. logFile' \in [Days -> Seq(Nat) \union {Missing}] /\ unlinked' \subseteq Writers
    BY <1>1
  <2>2. QED
    BY <1>1, <1>4, <1>6, <1>7, <2>1
<1>9. ASSUME NEW d \in Days, Due(d)' PROVE Grows(d)
  <2>1. d # e
    BY <1>1, <1>2, <1>3, <1>9 DEF Due
  <2>2. Content(d)' = Content(d)
    BY <1>5, <2>1 DEF Content
  <2>3. QED
    BY <2>2, SameGrows
<1>10. QED
  BY <1>8, <1>9

LEMMA WritingGrows ==
    ASSUME AuditOK, NEW w \in Writers, WriteLog(w)
    PROVE  /\ AuditOK' /\ \A d \in Days : Grows(d)
           /\ \A e \in logged' \ logged : Due(e[1])' => e[2] \in ToSet(Content(e[1])')
<1> USE AuditAssumption DEF AuditOK, LogStages
<1>1. PICK day \in Days : day = opened[w] /\ opened[w] # Closed
  BY DEF WriteLog
<1>2. PICK event \in Nat : event = Cardinality(logged) + 1
  BY FS_CardinalityType
<1>3. /\ logging[w] = "write" /\ logging' = [logging EXCEPT ![w] = "ready"]
      /\ logged' = logged \union {<<day, event>>}
      /\ inLog' = inLog \ {w}
      /\ logFile' = IF w \in unlinked THEN logFile
                    ELSE [logFile EXCEPT ![day] = Append(logFile[day], event)]
      /\ UNCHANGED <<today, opened, clock, doomed, unlinked, erased, overrun, fixing>>
  BY <1>1, <1>2 DEF WriteLog, Turns
<1>4. w \notin unlinked =>
         /\ logFile[day] \in Seq(Nat) /\ logFile[day] # Missing
         /\ Append(logFile[day], event) \in Seq(Nat)
         /\ Append(logFile[day], event) # Missing
  <2>1. w \notin unlinked => logFile[day] # Missing
    BY <1>1
  <2>2. w \notin unlinked => logFile[day] \in Seq(Nat)
    BY <2>1
  <2>3. \A s \in Seq(Nat) : Append(s, event) \in Seq(Nat)
    BY <1>2
  <2>4. \A s \in Seq(Nat) : Append(s, event) # Missing
    BY <2>3
  <2>5. QED
    BY <2>1, <2>2, <2>3, <2>4
<1>5. AuditOK'
  <2>1. logFile' \in [Days -> Seq(Nat) \union {Missing}]
        /\ \A d \in Days : logFile[d] # Missing => logFile'[d] # Missing
    BY <1>3, <1>4
  <2>2. logged' \subseteq Days \X Nat
    BY <1>2, <1>3
  <2>3. IsFiniteSet(logged \union {<<day, event>>})
    BY FS_AddElement
  <2>4. logging' \in [Writers -> LogStages] /\ inLog' \subseteq Writers
        /\ \A v \in Writers :
              /\ logging'[v] \in {"list", "prune", "write"} => opened'[v] # Closed
              /\ logging'[v] # "prune" => doomed'[v] = {}
    BY <1>3
  <2>5. \A v \in Writers : opened'[v] # Closed /\ v \notin unlinked' =>
           logFile'[opened'[v]] # Missing
    BY <1>3, <2>1
  <2>6. IsFiniteSet(logged')
    BY <1>3, <2>3
  <2>7. \A v \in Writers :
           /\ clock'[v] <= today'
           /\ \A d \in doomed'[v] : ~Kept(d, clock'[v])
           /\ opened'[v] # Closed /\ v \in unlinked' =>
                 opened'[v] + 1 < today' \/ opened'[v] \in overrun'
    BY <1>3
  <2>8. /\ today' \in Days /\ opened' \in [Writers -> Days \union {Closed}]
        /\ unlinked' \subseteq Writers /\ clock' \in [Writers -> Days]
        /\ doomed' \in [Writers -> SUBSET Days] /\ overrun' \subseteq Days
        /\ fixing' \in Days \union {Closed}
    BY <1>3
  <2>9. QED
    BY <2>1, <2>2, <2>4, <2>5, <2>6, <2>7, <2>8
<1>6. ASSUME NEW d \in Days PROVE Grows(d)
  <2>1. CASE w \in unlinked \/ d # day
    <3>1. Content(d)' = Content(d)
      BY <1>3, <2>1 DEF Content
    <3>2. QED
      BY <3>1, SameGrows
  <2>2. CASE w \notin unlinked /\ d = day
    <3>1. Content(d) = logFile[d] /\ Content(d)' = Append(logFile[d], event)
      BY <1>3, <1>4, <2>2 DEF Content
    <3>2. QED
      BY <1>2, <1>4, <2>2, <3>1 DEF Grows
  <2>3. QED
    BY <2>1, <2>2
<1>7. w \notin unlinked => event \in ToSet(Content(day)')
  <2>1. ASSUME w \notin unlinked PROVE event \in ToSet(Content(day)')
    <3>1. Content(day)' = Append(logFile[day], event)
      BY <1>3, <1>4, <2>1 DEF Content
    <3>2. Len(logFile[day]) + 1 \in DOMAIN Append(logFile[day], event)
          /\ Append(logFile[day], event)[Len(logFile[day]) + 1] = event
      BY <1>2, <1>4, <2>1
    <3>3. QED
      BY <3>1, <3>2 DEF ToSet
  <2>2. QED
    BY <2>1
<1>8. w \in unlinked => ~Due(day)'
  BY <1>1, <1>3 DEF Due, Days
<1>9. QED
  BY <1>3, <1>5, <1>6, <1>7, <1>8

\* The other steps of a logger leave the files alone.
LEMMA TurningGrows ==
    ASSUME AuditOK, NEW w \in Writers,
           StartLogger(w) \/ StartLog(w) \/ OpenFails(w) \/ ListOld(w) \/ Pruned(w)
    PROVE  AuditOK' /\ \A d \in Days : Grows(d)
<1> USE AuditAssumption DEF AuditOK, LogStages, Turns
<1>1. AuditOK'
  <2>1. today \in Nat /\ today <= today
    BY DEF Days
  <2>2. CASE StartLogger(w)
    BY <2>1, <2>2 DEF StartLogger
  <2>3. CASE StartLog(w)
    BY <2>1, <2>3 DEF StartLog, Days
  <2>4. CASE OpenFails(w)
    BY <2>4 DEF OpenFails
  <2>5. CASE ListOld(w)
    BY <2>5 DEF ListOld
  <2>6. CASE Pruned(w)
    BY <2>6 DEF Pruned
  <2>7. QED
    BY <2>2, <2>3, <2>4, <2>5, <2>6
<1>2. \A d \in Days : Content(d)' = Content(d)
  BY DEF Content, StartLogger, StartLog, OpenFails, ListOld, Pruned
<1>3. QED
  BY <1>1, <1>2, SameGrows

LoggerStep(w) ==
    \/ StartLogger(w) \/ StartLog(w) \/ OpenDay(w) \/ OpenFails(w)
    \/ ListOld(w) \/ (\E d \in Days : RemoveOld(w, d)) \/ Pruned(w) \/ WriteLog(w)

LEMMA LoggerGrows ==
    ASSUME AuditOK, NEW w \in Writers, LoggerStep(w)
    PROVE  /\ AuditOK' /\ \A d \in Days : Due(d)' => Grows(d)
           /\ \A e \in logged' \ logged : Due(e[1])' => e[2] \in ToSet(Content(e[1])')
           /\ UNCHANGED <<today, erased, followVars>> /\ overrun \subseteq overrun'
           /\ logged' \subseteq Days \X Nat
<1>1. CASE WriteLog(w)
  <2>1. UNCHANGED <<today, erased, followVars, overrun>>
    BY <1>1 DEF WriteLog
  <2>2. QED
    BY <1>1, <2>1, WritingGrows DEF AuditOK
<1>2. CASE OpenDay(w)
  BY <1>2, OpeningGrows DEF OpenDay, AuditOK
<1>3. ASSUME NEW e \in Days, RemoveOld(w, e)
      PROVE  /\ AuditOK' /\ \A d \in Days : Due(d)' => Grows(d)
             /\ logged' = logged /\ UNCHANGED <<today, erased, followVars>>
             /\ overrun \subseteq overrun'
  <2>1. AuditOK' /\ \A d \in Days : Due(d)' => Grows(d)
    BY <1>3, RemovingGrows
  <2>2. QED
    BY <1>3, <2>1 DEF RemoveOld
<1>4. CASE StartLogger(w) \/ StartLog(w) \/ OpenFails(w) \/ ListOld(w) \/ Pruned(w)
  <2>1. AuditOK' /\ \A d \in Days : Grows(d)
    BY <1>4, TurningGrows
  <2>2. logged' = logged /\ UNCHANGED <<today, erased, followVars, overrun>>
    BY <1>4 DEF StartLogger, StartLog, OpenFails, ListOld, Pruned
  <2>3. QED
    BY <2>1, <2>2 DEF AuditOK
<1>5. QED
  BY <1>1, <1>2, <1>3, <1>4 DEF LoggerStep, AuditOK

\* What was confirmed is kept by files that grow.
LEMMA LoggerKeeps ==
    ASSUME AuditInv, NEW w \in Writers, LoggerStep(w)
    PROVE  AuditInv'
<1>1. /\ AuditOK /\ AuditOK' /\ UNCHANGED <<today, erased>> /\ overrun \subseteq overrun'
      /\ \A d \in Days : Due(d)' => Grows(d)
      /\ \A e \in logged' \ logged : Due(e[1])' => e[2] \in ToSet(Content(e[1])')
  BY LoggerGrows DEF AuditInv
<1>2. ASSUME NEW e \in logged' \ erased', e[1] + 1 >= today', e[1] \notin overrun'
      PROVE  e[2] \in ToSet(Content(e[1])')
  <2>1. e[1] \in Days /\ Due(e[1])'
    BY <1>1, <1>2 DEF AuditOK, Due
  <2>2. CASE e \in logged
    <3>1. e[2] \in ToSet(Content(e[1]))
      BY <1>1, <1>2, <2>2 DEF AuditInv, ConfirmedIsKept
    <3>2. QED
      BY <1>1, <2>1, <3>1, GrownHolds
  <2>3. CASE e \notin logged
    BY <1>1, <2>1, <2>3
  <2>4. QED
    BY <2>2, <2>3
<1>3. QED
  BY <1>1, <1>2 DEF AuditInv, ConfirmedIsKept, ToSet

LEMMA OthersKeep ==
    ASSUME AuditInv, Midnight \/ DoctorLooks \/ DoctorWrites
    PROVE  AuditInv'
<1> USE AuditAssumption DEF AuditInv, AuditOK, LogStages
<1>1. CASE Midnight
  <2>1. today \in Nat /\ today' = today + 1 /\ today' \in Days
        /\ UNCHANGED <<logFile, loggerVars, logged, erased, overrun, fixing>>
    BY <1>1 DEF Midnight, Days
  <2>2. AuditOK'
    BY <2>1 DEF loggerVars, Days
  <2>3. ConfirmedIsKept'
    BY <2>1 DEF ConfirmedIsKept, Content, Days
  <2>4. QED
    BY <2>2, <2>3
<1>2. CASE DoctorLooks
  BY <1>2 DEF DoctorLooks, ConfirmedIsKept, Content, loggerVars
<1>3. CASE DoctorWrites
  <2>1. /\ fixing \in Days
        /\ logFile' = [logFile EXCEPT ![fixing] = <<>>]
        /\ erased' = erased \union {<<fixing, e>> : e \in ToSet(Content(fixing))}
        /\ fixing' = Closed
        /\ UNCHANGED <<today, loggerVars, logged, overrun>>
    BY <1>3 DEF DoctorWrites
  <2>2. <<>> \in Seq(Nat) /\ <<>> # Missing
    <3>1. <<>> \in Seq(Nat)
      OBVIOUS
    <3>2. QED
      BY <3>1
  <2>3. \A d \in Days : logFile[d] # Missing => logFile'[d] # Missing
    BY <2>1, <2>2
  <2>4. AuditOK'
    BY <2>1, <2>2, <2>3 DEF loggerVars
  <2>5. ASSUME NEW e \in logged \ erased', e[1] + 1 >= today, e[1] \notin overrun
        PROVE  e[2] \in ToSet(Content(e[1]))'
    <3>1. e[2] \in ToSet(Content(e[1])) /\ e = <<e[1], e[2]>> /\ e[1] \in Days
      BY <2>1, <2>5 DEF ConfirmedIsKept
    <3>2. e[1] # fixing
      BY <2>1, <2>5, <3>1
    <3>3. Content(e[1])' = Content(e[1])
      BY <2>1, <3>1, <3>2 DEF Content
    <3>4. QED
      BY <3>1, <3>3 DEF ToSet
  <2>6. QED
    BY <2>1, <2>4, <2>5 DEF ConfirmedIsKept
<1>4. QED
  BY <1>1, <1>2, <1>3

LEMMA AuditNext == AuditInv /\ [Next]_vars => AuditInv'
<1> SUFFICES ASSUME AuditInv, [Next]_vars PROVE AuditInv'
  OBVIOUS
<1>1. ASSUME NEW w \in Writers, Log(w) PROVE AuditInv'
  BY <1>1, LoggerKeeps DEF Log, LoggerStep
<1>2. CASE UNCHANGED logVars
  BY <1>2 DEF logVars, loggerVars, AuditInv, AuditOK, ConfirmedIsKept, Content
<1>3. CASE Others
  BY <1>2, <1>3, OthersKeep DEF Others, LogsRead, LogsFollow, Poll
<1>4. QED
  BY <1>1, <1>2, <1>3 DEF Next, Token, Edit, Setup, vars, auditVars

LEMMA AuditInit == Init => AuditInv
<1>1. ASSUME Init PROVE IsFiniteSet(logged)
  BY <1>1, FS_EmptySet DEF Init, InitAudit
<1>2. 0 \in Days /\ 0 <= 0
  BY AuditAssumption DEF Days
<1>3. ASSUME InitAudit, IsFiniteSet(logged) PROVE AuditOK
  BY <1>2, <1>3 DEF InitAudit, AuditOK, LogStages
<1>4. QED
  BY <1>1, <1>3 DEF Init, InitAudit, AuditInv, ConfirmedIsKept

\* A confirmed event is in its file today and tomorrow, whoever rotates or
\* prunes, and whenever, unless a writer that still has an earlier date removes
\* the file or doctor empties it.  (audit.go Log, pruneOldFiles)
THEOREM EventsAreKept == Spec => []ConfirmedIsKept
BY AuditInit, AuditNext, PTL DEF Spec, AuditInv
----------------------------------------------------------------------------
(* The follower *)

\* The log was emptied by doctor, or removed by a writer with an earlier date.
Spoilt(d) == d \in overrun \/ \E e \in erased : e[1] = d

\* What has been printed of a day's file ends the part of it that was read, or
\* the file was spoilt.
ReadOK(d) ==
    \/ Spoilt(d)
    \/ /\ Len(printed[d]) <= offsets[d] /\ offsets[d] <= Len(Content(d))
       /\ \A i \in 1..Len(printed[d]) :
             printed[d][i] = Content(d)[offsets[d] - Len(printed[d]) + i]

\* Nothing is read of a day to come, nor before the follower follows.
FollowInv ==
    /\ offsets \in [Days -> Nat] /\ printed \in [Days -> Seq(Nat)]
    /\ \A d \in Days : d > today \/ follower # "following" =>
          offsets[d] = 0 /\ printed[d] = <<>>
    /\ follower = "following" => \A d \in Active : ReadOK(d)

\* A file that only grows leaves what was read of it where it was.
LEMMA GrownKeeps ==
    ASSUME AuditOK, AuditOK', FollowInv, UNCHANGED followVars, NEW d \in Days,
           ReadOK(d), erased \subseteq erased', overrun \subseteq overrun',
           Spoilt(d)' \/ Grows(d)
    PROVE  ReadOK(d)'
<1>1. CASE Spoilt(d) \/ Spoilt(d)'
  BY <1>1 DEF ReadOK, Spoilt
<1>2. CASE ~Spoilt(d) /\ ~Spoilt(d)'
  <2>1. /\ Len(printed[d]) <= offsets[d] /\ offsets[d] <= Len(Content(d))
        /\ \A i \in 1..Len(printed[d]) :
              printed[d][i] = Content(d)[offsets[d] - Len(printed[d]) + i]
        /\ Len(Content(d)) <= Len(Content(d)')
        /\ \A i \in 1..Len(Content(d)) : Content(d)'[i] = Content(d)[i]
    BY <1>2 DEF ReadOK, Grows
  <2>2. /\ Len(Content(d)) \in Nat /\ Len(Content(d)') \in Nat
        /\ offsets[d] \in Nat /\ Len(printed[d]) \in Nat
    BY ContentType DEF FollowInv, AuditOK, Content
  <2>3. offsets' = offsets /\ printed' = printed
    BY DEF followVars
  <2>4. \A i \in 1..Len(printed[d]) :
           printed[d][i] = Content(d)'[offsets[d] - Len(printed[d]) + i]
    <3>1. PICK n \in Nat, k \in Nat, l \in Nat :
             n = Len(printed[d]) /\ k = offsets[d] /\ l = Len(Content(d))
      BY <2>2
    <3>2. \A i \in 1..n : k - n + i \in 1..l
      BY <2>1, <3>1
    <3>3. QED
      BY <2>1, <3>1, <3>2
  <2>5. QED
    BY <2>1, <2>2, <2>3, <2>4 DEF ReadOK
<1>3. QED
  BY <1>1, <1>2

\* The log's own steps, while the follower looks on.
LEMMA LogFollowed ==
    ASSUME AuditOK, AuditOK', FollowInv, UNCHANGED <<today, followVars>>,
           erased \subseteq erased', overrun \subseteq overrun',
           \A d \in Active : Spoilt(d)' \/ Grows(d)
    PROVE  FollowInv'
<1>1. Active' = Active /\ Active \subseteq Days
  BY DEF Active
<1>2. ASSUME follower = "following", NEW d \in Active PROVE ReadOK(d)'
  <2>1. d \in Days /\ ReadOK(d)
    BY <1>1, <1>2 DEF FollowInv
  <2>2. QED
    BY <1>1, <2>1, GrownKeeps
<1>3. QED
  BY <1>1, <1>2 DEF FollowInv, followVars

LEMMA LoggerFollowed ==
    ASSUME AuditOK, FollowInv, NEW w \in Writers, LoggerStep(w)
    PROVE  FollowInv'
<1>1. /\ AuditOK' /\ UNCHANGED <<today, erased, followVars>> /\ overrun \subseteq overrun'
      /\ \A d \in Days : Due(d)' => Grows(d)
  BY LoggerGrows
<1>2. ASSUME NEW d \in Active PROVE Spoilt(d)' \/ Grows(d)
  <2>1. d \in Days /\ d \in Nat /\ today \in Nat /\ d + 1 >= today
    BY AuditAssumption DEF Active, Days, AuditOK
  <2>2. QED
    BY <1>1, <2>1 DEF Due, Spoilt
<1>3. QED
  BY <1>1, <1>2, LogFollowed

LEMMA DoctorFollowed ==
    ASSUME AuditOK, AuditOK', FollowInv, DoctorWrites
    PROVE  FollowInv'
<1>1. /\ fixing \in Days /\ logFile' = [logFile EXCEPT ![fixing] = <<>>]
      /\ erased' = erased \union {<<fixing, e>> : e \in ToSet(Content(fixing))}
      /\ UNCHANGED <<today, overrun, followVars>>
  BY DEF DoctorWrites, AuditOK
<1>2. ASSUME NEW d \in Days PROVE Spoilt(d)' \/ Grows(d)
  <2>1. CASE d # fixing
    <3>1. Content(d)' = Content(d)
      BY <1>1, <2>1 DEF Content, AuditOK
    <3>2. QED
      BY <3>1, SameGrows
  <2>2. CASE d = fixing /\ Len(Content(d)) = 0
    <3>1. Len(Content(d)') \in Nat
      BY ContentType DEF AuditOK, Content
    <3>2. QED
      BY <2>2, <3>1 DEF Grows
  <2>3. CASE d = fixing /\ Len(Content(d)) # 0
    <3>1. 1 \in 1..Len(Content(d)) /\ DOMAIN Content(d) = 1..Len(Content(d))
      BY <2>3, ContentType
    <3>2. Content(d)[1] \in ToSet(Content(d))
      BY <3>1 DEF ToSet
    <3>3. <<d, Content(d)[1]>> \in erased'
      BY <1>1, <2>3, <3>2
    <3>4. QED
      BY <3>3 DEF Spoilt
  <2>4. QED
    BY <2>1, <2>2, <2>3
<1>3. QED
  BY <1>1, <1>2, LogFollowed DEF Active

\* At midnight the day that begins has nothing read of it yet.
LEMMA MidnightFollowed ==
    ASSUME AuditOK, AuditOK', FollowInv, Midnight
    PROVE  FollowInv'
<1>1. /\ today \in Nat /\ today \in Days /\ today' = today + 1 /\ today' \in Days
      /\ \A d \in Days : d \in Nat
      /\ UNCHANGED <<logFile, erased, overrun, followVars>>
  BY AuditAssumption DEF Midnight, Days, AuditOK
<1>2. ASSUME follower = "following", NEW d \in Active' PROVE ReadOK(d)'
  <2>1. CASE d = today'
    <3>1. d \in Days /\ d > today
      BY <1>1, <2>1
    <3>2. offsets'[d] = 0 /\ printed'[d] = <<>> /\ Len(Content(d)') \in Nat
      BY <1>1, <3>1, ContentType DEF FollowInv, followVars, Content
    <3>3. QED
      BY <3>2 DEF ReadOK
  <2>2. CASE d # today'
    <3>1. d = today /\ d \in Active
      BY <1>1, <1>2, <2>2 DEF Active
    <3>2. ReadOK(d)
      BY <1>2, <3>1 DEF FollowInv
    <3>3. QED
      BY <1>1, <3>2 DEF ReadOK, Spoilt, Content, followVars
  <2>3. QED
    BY <2>1, <2>2
<1>3. \A d \in Days : d > today' => d > today
  BY <1>1
<1>4. QED
  BY <1>1, <1>2, <1>3 DEF FollowInv, followVars

\* The follower begins at the ends of the files.
LEMMA StartFollowed ==
    ASSUME AuditOK, FollowInv, LogsRead \/ LogsFollow
    PROVE  FollowInv'
<1>1. CASE LogsRead
  BY <1>1 DEF LogsRead, FollowInv, logVars
<1>2. CASE LogsFollow
  <2>1. /\ follower = "read" /\ follower' = "following"
        /\ offsets' = [d \in Days |-> IF d \in Active THEN Len(Content(d)) ELSE 0]
        /\ UNCHANGED <<today, logFile, erased, overrun, printed>>
    BY <1>2 DEF LogsFollow, logVars
  <2>2. \A d \in Days : printed[d] = <<>>
    BY <2>1 DEF FollowInv
  <2>3. Active' = Active /\ \A d \in Days : d > today => d \notin Active
    BY <2>1, AuditAssumption DEF Active, Days, AuditOK
  <2>4. ASSUME NEW d \in Active PROVE ReadOK(d)'
    <3>1. d \in Days /\ offsets'[d] = Len(Content(d)) /\ Content(d)' = Content(d)
      BY <2>1, <2>4 DEF Active, Content
    <3>2. printed'[d] = <<>> /\ Len(Content(d)) \in Nat
      BY <2>1, <2>2, <3>1, ContentType
    <3>3. QED
      BY <3>1, <3>2 DEF ReadOK
  <2>5. offsets' \in [Days -> Nat]
    BY <2>1, ContentType
  <2>6. \A d \in Days : d > today' => offsets'[d] = 0 /\ printed'[d] = <<>>
    BY <2>1, <2>2, <2>3
  <2>7. QED
    BY <2>1, <2>3, <2>4, <2>5, <2>6 DEF FollowInv
<1>3. QED
  BY <1>1, <1>2

\* What was read up to k and the rest behind it end the sequence.
LEMMA RestEnds ==
    ASSUME NEW c \in Seq(Nat), NEW s \in Seq(Nat), NEW k \in Nat,
           Len(s) <= k, k <= Len(c), \A i \in 1..Len(s) : s[i] = c[k - Len(s) + i]
    PROVE  LET w == s \o SubSeq(c, k + 1, Len(c))
           IN  /\ Len(w) <= Len(c)
               /\ \A i \in 1..Len(w) : w[i] = c[Len(c) - Len(w) + i]
<1>1. PICK u : u = SubSeq(c, k + 1, Len(c))
  OBVIOUS
<1>2. u \in Seq(Nat) /\ Len(u) = Len(c) - k /\ \A i \in 1..Len(u) : u[i] = c[k + i]
  BY <1>1
<1>3. PICK w : w = s \o u
  OBVIOUS
<1>4. /\ Len(w) = Len(s) + Len(u)
      /\ \A i \in 1..(Len(s) + Len(u)) : w[i] = IF i <= Len(s) THEN s[i] ELSE u[i - Len(s)]
  BY <1>2, <1>3, ConcatProperties
<1>5. Len(w) <= Len(c)
  BY <1>2, <1>4
<1>6. ASSUME NEW i \in 1..Len(w) PROVE w[i] = c[Len(c) - Len(w) + i]
  <2>0. Len(s) \in Nat /\ Len(u) \in Nat /\ Len(c) \in Nat
    BY <1>2, LenProperties
  <2>1. PICK n \in Nat, m \in Nat, l \in Nat : n = Len(s) /\ m = Len(u) /\ l = Len(c)
    BY <2>0
  <2>2. i \in 1..(n + m) /\ Len(w) = n + m /\ m = l - k /\ n <= k
    BY <1>2, <1>4, <2>1
  <2>3. CASE i <= n
    <3>1. i \in 1..n /\ l - (n + m) + i = k - n + i
      BY <2>2, <2>3
    <3>2. s[i] = c[k - n + i] /\ w[i] = s[i]
      BY <1>4, <2>1, <2>2, <2>3, <3>1
    <3>3. QED
      BY <2>1, <2>2, <3>1, <3>2
  <2>4. CASE i > n
    <3>1. i - n \in 1..m /\ l - (n + m) + i = k + (i - n)
      BY <2>2, <2>4
    <3>2. w[i] = u[i - n]
      BY <1>4, <2>1, <2>2, <2>4
    <3>3. u[i - n] = c[k + (i - n)]
      BY <1>2, <2>1, <3>1
    <3>4. QED
      BY <2>1, <2>2, <3>1, <3>2, <3>3
  <2>5. QED
    BY <2>2, <2>3, <2>4
<1>7. QED
  BY <1>1, <1>3, <1>5, <1>6

\* A poll prints the rest of what is there.
LEMMA PollFollowed ==
    ASSUME AuditOK, FollowInv, Poll
    PROVE  FollowInv'
<1> DEFINE rest(d) == SubSeq(Content(d), From(d) + 1, Len(Content(d)))
<1>1. /\ follower = "following"
      /\ printed' = [d \in Days |->
           IF d \in Active /\ logFile[d] # Missing THEN printed[d] \o rest(d) ELSE printed[d]]
      /\ offsets' = [d \in Days |->
           IF d \notin Active THEN 0
           ELSE IF logFile[d] = Missing THEN offsets[d] ELSE Len(Content(d))]
      /\ UNCHANGED <<today, logFile, erased, overrun, follower>>
  BY DEF Poll, logVars
<1>2. Active' = Active /\ Active \subseteq Days /\ \A d \in Days : d > today => d \notin Active
  BY <1>1, AuditAssumption DEF Active, Days, AuditOK
<1>3. ASSUME NEW d \in Days
      PROVE  /\ From(d) \in Nat /\ rest(d) \in Seq(Nat)
             /\ printed[d] \in Seq(Nat) /\ offsets[d] \in Nat
             /\ Content(d) \in Seq(Nat) /\ Len(Content(d)) \in Nat
             /\ Content(d)' = Content(d)
  BY <1>1, ContentType DEF From, FollowInv, Content
<1>4. offsets' \in [Days -> Nat]
  BY <1>1, <1>3
<1>5. printed' \in [Days -> Seq(Nat)]
  <2> HIDE DEF rest
  <2>1. \A d \in Days : printed[d] \o rest(d) \in Seq(Nat) /\ printed[d] \in Seq(Nat)
    BY <1>3
  <2>2. QED
    BY <1>1, <2>1
<1>6. ASSUME NEW d \in Active PROVE ReadOK(d)'
  <2>1. d \in Days /\ ReadOK(d)
    BY <1>1, <1>2, <1>6 DEF FollowInv
  <2>2. CASE Spoilt(d)
    BY <1>1, <2>2 DEF ReadOK, Spoilt
  <2>3. CASE logFile[d] = Missing
    <3>1. printed'[d] = printed[d] /\ offsets'[d] = offsets[d]
      BY <1>1, <1>6, <2>1, <2>3
    <3>2. QED
      BY <1>1, <1>3, <2>1, <3>1 DEF ReadOK, Spoilt
  <2>4. CASE logFile[d] # Missing /\ ~Spoilt(d)
    <3>1. /\ Len(printed[d]) <= offsets[d] /\ offsets[d] <= Len(Content(d))
          /\ \A i \in 1..Len(printed[d]) :
                printed[d][i] = Content(d)[offsets[d] - Len(printed[d]) + i]
      BY <2>1, <2>4 DEF ReadOK
    <3>2. From(d) = offsets[d]
      BY <1>3, <2>1, <3>1 DEF From
    <3>3. printed'[d] = printed[d] \o SubSeq(Content(d), offsets[d] + 1, Len(Content(d)))
          /\ offsets'[d] = Len(Content(d))
      BY <1>1, <1>6, <2>1, <2>4, <3>2
    <3>4. PICK c \in Seq(Nat), s \in Seq(Nat), k \in Nat :
             c = Content(d) /\ s = printed[d] /\ k = offsets[d]
      BY <1>3, <2>1
    <3>5. Len(s) <= k /\ k <= Len(c) /\ \A i \in 1..Len(s) : s[i] = c[k - Len(s) + i]
      BY <3>1, <3>4
    <3>6. LET w == s \o SubSeq(c, k + 1, Len(c))
          IN  /\ Len(w) <= Len(c)
              /\ \A i \in 1..Len(w) : w[i] = c[Len(c) - Len(w) + i]
      BY <3>5, RestEnds
    <3>7. Content(d)' = c /\ printed'[d] = s \o SubSeq(c, k + 1, Len(c)) /\ offsets'[d] = Len(c)
      BY <1>3, <2>1, <3>3, <3>4
    <3>8. QED
      <4>1. PICK w : w = s \o SubSeq(c, k + 1, Len(c))
        OBVIOUS
      <4>2. Len(w) <= Len(c) /\ \A i \in 1..Len(w) : w[i] = c[Len(c) - Len(w) + i]
        BY <3>6, <4>1
      <4>3. Len(c) <= Len(c)
        BY <3>4
      <4>4. QED
        BY <3>7, <4>1, <4>2, <4>3 DEF ReadOK
  <2>5. QED
    BY <2>2, <2>3, <2>4
<1>7. \A d \in Days : d > today' => offsets'[d] = 0 /\ printed'[d] = <<>>
  BY <1>1, <1>2 DEF FollowInv
<1>8. QED
  BY <1>1, <1>2, <1>4, <1>5, <1>6, <1>7 DEF FollowInv

\* What ends a sequence, by indices.
LEMMA SuffixByIndex ==
    ASSUME NEW s \in Seq(Nat), NEW t \in Seq(Nat), Len(s) <= Len(t),
           \A i \in 1..Len(s) : s[i] = t[Len(t) - Len(s) + i]
    PROVE  IsSuffix(s, t)
<1>1. Reverse(s) \in Seq(Nat) /\ Len(Reverse(s)) = Len(s)
      /\ \A i \in 1..Len(s) : Reverse(s)[i] = s[(Len(s) - i) + 1]
  BY SMTT(60) DEF Reverse
<1>2. Reverse(t) \in Seq(Nat) /\ Len(Reverse(t)) = Len(t)
      /\ \A i \in 1..Len(t) : Reverse(t)[i] = t[(Len(t) - i) + 1]
  BY SMTT(60) DEF Reverse
<1>3. ASSUME NEW i \in 1..Len(s) PROVE Reverse(s)[i] = Reverse(t)[i]
  <2>1. Len(s) \in Nat /\ Len(t) \in Nat /\ (Len(s) - i) + 1 \in 1..Len(s) /\ i \in 1..Len(t)
    OBVIOUS
  <2>2. Len(t) - Len(s) + ((Len(s) - i) + 1) = (Len(t) - i) + 1
    BY <2>1
  <2>3. s[(Len(s) - i) + 1] = t[(Len(t) - i) + 1]
    BY <2>1, <2>2
  <2>4. QED
    BY <1>1, <1>2, <2>1, <2>3
<1>4. SubSeq(Reverse(s), 1, Len(s)) = SubSeq(Reverse(t), 1, Len(s))
  BY <1>1, <1>2, <1>3
<1>5. QED
  BY <1>1, <1>2, <1>4 DEF IsSuffix, IsPrefix

\* Without a change of the log the follower has nothing to read.
LEMMA RestFollowed ==
    ASSUME AuditOK, AuditOK', FollowInv,
           UNCHANGED <<today, logFile, erased, overrun, followVars>>
    PROVE  FollowInv'
<1>1. \A d \in Active : Grows(d)
  BY SameGrows DEF Content, Active
<1>2. QED
  BY <1>1, LogFollowed

LEMMA FollowNext == AuditOK /\ AuditOK' /\ FollowInv /\ [Next]_vars => FollowInv'
<1> SUFFICES ASSUME AuditOK, AuditOK', FollowInv, [Next]_vars PROVE FollowInv'
  OBVIOUS
<1>1. CASE UNCHANGED auditVars
  BY <1>1, RestFollowed DEF auditVars, logVars
<1>2. ASSUME NEW w \in Writers, Log(w) PROVE FollowInv'
  BY <1>2, LoggerFollowed DEF Log, LoggerStep
<1>3. CASE DoctorLooks
  BY <1>3, RestFollowed DEF DoctorLooks
<1>4. CASE Others
  BY <1>3, <1>4, MidnightFollowed, DoctorFollowed, StartFollowed, PollFollowed DEF Others
<1>5. QED
  BY <1>1, <1>2, <1>4 DEF Next, Token, Edit, Setup, vars

\* What `logs --follow` has printed of a day is, without a gap and in order, the
\* end of what it has read of that day's file.  (logs_cmd.go checkActivePaths)
THEOREM FollowerKeepsOrder == Spec => []FollowedInOrder
<1>1. Init => FollowInv
  <2> SUFFICES ASSUME InitAudit PROVE FollowInv
    BY DEF Init
  <2>1. offsets \in [Days -> Nat] /\ printed \in [Days -> Seq(Nat)]
    BY DEF InitAudit
  <2>2. QED
    BY <2>1 DEF InitAudit, FollowInv
<1>2. AuditOK /\ FollowInv => FollowedInOrder
  <2>1. ASSUME AuditOK, FollowInv, follower = "following", NEW d \in Active,
               ~Spoilt(d)
        PROVE  IsSuffix(printed[d], SubSeq(Content(d), 1, offsets[d]))
    <3>1. d \in Days
      BY DEF Active
    <3>2. PICK c \in Seq(Nat), s \in Seq(Nat), k \in Nat :
             c = Content(d) /\ s = printed[d] /\ k = offsets[d]
      BY <2>1, <3>1, ContentType DEF FollowInv
    <3>3. Len(s) <= k /\ k <= Len(c) /\ \A i \in 1..Len(s) : s[i] = c[k - Len(s) + i]
      BY <2>1, <3>2 DEF FollowInv, ReadOK
    <3>4. /\ SubSeq(c, 1, k) \in Seq(Nat) /\ Len(SubSeq(c, 1, k)) = k
          /\ \A i \in 1..k : SubSeq(c, 1, k)[i] = c[i]
      BY <3>3
    <3>5. \A i \in 1..Len(s) : s[i] = SubSeq(c, 1, k)[k - Len(s) + i]
      BY <3>3, <3>4, SMTT(120)
    <3>6. IsSuffix(s, SubSeq(c, 1, k))
      BY <3>3, <3>4, <3>5, SuffixByIndex
    <3>7. QED
      BY <3>2, <3>6
  <2>2. QED
    BY <2>1 DEF FollowedInOrder, Spoilt
<1>3. QED
  BY <1>1, <1>2, AuditInit, AuditNext, FollowNext, PTL DEF Spec, AuditInv
----------------------------------------------------------------------------
(* Sequences of entries *)

\* A set of naturals that is not empty has a least element.
LEMMA LeastNatural ==
    ASSUME NEW S, S \subseteq Nat, S # {}
    PROVE  \E x \in S : \A y \in S : x <= y
<1> DEFINE T == {1..n : n \in S}
<1>1. T \subseteq FiniteSubsetsOf(Nat) /\ T # {}
  <2>1. ASSUME NEW n \in S PROVE 1..n \in FiniteSubsetsOf(Nat)
    <3>1. IsFiniteSet(1..n) /\ 1..n \subseteq Nat
      BY FS_Interval
    <3>2. QED
      BY <3>1 DEF FiniteSubsetsOf
  <2>2. QED
    BY <2>1
<1>2. PICK x \in T : \A y \in T : ~(<<y, x>> \in StrictSubsetOrdering(Nat))
  <2> HIDE DEF T
  <2>1. QED
    BY <1>1, FS_StrictSubsetOrderingWellFounded, WFMin
<1>3. PICK n \in S : x = 1..n
  BY <1>2
<1>4. ASSUME NEW m \in S PROVE n <= m
  <2>1. 1..m \in T /\ n \in Nat /\ m \in Nat
    BY <1>3
  <2>2. ~(<<1..m, 1..n>> \in StrictSubsetOrdering(Nat))
    BY <1>2, <1>3, <2>1
  <2>3. ASSUME m < n PROVE FALSE
    <3>1. 1..m \subseteq 1..n /\ n \in 1..n /\ n \notin 1..m
      BY <2>1, <2>3
    <3>2. QED
      BY <2>1, <2>2, <3>1 DEF StrictSubsetOrdering
  <2>4. QED
    BY <2>1, <2>3
<1>5. QED
  BY <1>4

\* Entries with a name are fewer than two.
Single(entries, name) ==
    \A i, j \in DOMAIN entries : entries[i].name = name /\ entries[j].name = name => i = j

\* What is left of s without one of its elements.
LEMMA RemovedAt ==
    ASSUME NEW S, NEW s \in Seq(S), NEW k \in 1..Len(s)
    PROVE  /\ RemoveAt(s, k) \in Seq(S)
           /\ Len(RemoveAt(s, k)) = Len(s) - 1
           /\ \A i \in 1..(Len(s) - 1) : RemoveAt(s, k)[i] = IF i < k THEN s[i] ELSE s[i + 1]
<1>1. PICK n \in Nat : n = Len(s)
  OBVIOUS
<1>2. PICK a : a = SubSeq(s, 1, k - 1)
  OBVIOUS
<1>3. a \in Seq(S) /\ Len(a) = k - 1 /\ \A i \in 1..(k - 1) : a[i] = s[i]
  BY <1>1, <1>2
<1>4. PICK b : b = SubSeq(s, k + 1, n)
  OBVIOUS
<1>5. b \in Seq(S) /\ Len(b) = n - k /\ \A i \in 1..(n - k) : b[i] = s[k + i]
  BY <1>1, <1>4
<1>6. /\ a \o b \in Seq(S) /\ Len(a \o b) = Len(a) + Len(b)
      /\ \A i \in 1..(Len(a) + Len(b)) :
            (a \o b)[i] = IF i <= Len(a) THEN a[i] ELSE b[i - Len(a)]
  BY <1>3, <1>5, ConcatProperties
<1>7. RemoveAt(s, k) = a \o b
  BY <1>1, <1>2, <1>4 DEF RemoveAt
<1>8. k \in Nat /\ Len(a) + Len(b) = n - 1
  BY <1>1, <1>3, <1>5
<1>9. ASSUME NEW i \in 1..(n - 1)
      PROVE  (a \o b)[i] = IF i < k THEN s[i] ELSE s[i + 1]
  <2>1. i \in 1..(Len(a) + Len(b)) /\ i \in Nat
    BY <1>1, <1>8
  <2>2. CASE i < k
    <3>1. i \in 1..(k - 1) /\ i <= Len(a)
      BY <1>3, <1>8, <2>1, <2>2
    <3>2. QED
      BY <1>3, <1>6, <2>1, <2>2, <3>1
  <2>3. CASE ~(i < k)
    <3>1. i - (k - 1) \in 1..(n - k) /\ k + (i - (k - 1)) = i + 1 /\ ~(i <= Len(a))
      BY <1>1, <1>3, <1>8, <2>1, <2>3
    <3>2. (a \o b)[i] = b[i - (k - 1)]
      BY <1>3, <1>6, <2>1, <3>1
    <3>3. b[i - (k - 1)] = s[k + (i - (k - 1))]
      BY <1>5, <3>1
    <3>4. QED
      BY <2>3, <3>1, <3>2, <3>3
  <2>4. QED
    BY <2>2, <2>3
<1>10. QED
  BY <1>1, <1>6, <1>7, <1>8, <1>9

\* removeMapping and removePolicyByName remove nothing of another name, and
\* what was single is gone.
LEMMA WithoutOne ==
    ASSUME NEW S, NEW s \in Seq(S), NEW n
    PROVE  LET w == Without(s, n)
           IN  /\ w \in Seq(S) /\ Range(w) \subseteq Range(s)
               /\ \A e \in Range(s) : e.name # n => e \in Range(w)
               /\ \A x : Single(s, x) => Single(w, x)
               /\ Single(s, n) => \A e \in Range(w) : e.name # n
<1> DEFINE I == {i \in 1..Len(s) : s[i].name = n}
<1>1. CASE I = {}
  <2>1. Without(s, n) = s
    BY <1>1 DEF Without, RemoveFirstMatch
  <2>2. \A e \in Range(s) : e.name # n
    BY <1>1 DEF Range
  <2>3. QED
    BY <2>1, <2>2
<1>2. CASE I # {}
  <2>1. PICK k \in I : Without(s, n) = RemoveAt(s, k)
    <3>1. I \subseteq Nat
      OBVIOUS
    <3>2. \E x \in I : \A y \in I : x <= y
      BY <1>2, <3>1, LeastNatural
    <3>3. Min(I) \in I
      BY <3>2 DEF Min
    <3>4. Without(s, n) = RemoveAt(s, Min(I))
      BY <1>2 DEF Without, RemoveFirstMatch, SelectInSeq
    <3>5. QED
      BY <3>3, <3>4
  <2>2. k \in 1..Len(s) /\ s[k].name = n /\ Len(s) \in Nat
    BY <2>1
  <2>3. PICK w : w = RemoveAt(s, k)
    OBVIOUS
  <2>4. /\ w \in Seq(S) /\ Len(w) = Len(s) - 1
        /\ \A i \in 1..(Len(s) - 1) : w[i] = IF i < k THEN s[i] ELSE s[i + 1]
    BY <2>2, <2>3, RemovedAt
  <2>5. DOMAIN w = 1..(Len(s) - 1) /\ DOMAIN s = 1..Len(s)
    BY <2>4
  <2>6. ASSUME NEW i \in DOMAIN w PROVE w[i] \in Range(s)
    <3>1. i \in DOMAIN s /\ i + 1 \in DOMAIN s
      BY <2>2, <2>5
    <3>2. w[i] = s[i] \/ w[i] = s[i + 1]
      BY <2>4, <2>5
    <3>3. QED
      BY <3>1, <3>2 DEF Range
  <2>7. ASSUME NEW i \in DOMAIN s, i # k PROVE s[i] \in Range(w)
    <3>1. CASE i < k
      BY <2>2, <2>4, <2>5, <2>7, <3>1 DEF Range
    <3>2. CASE i > k
      <4>1. i - 1 \in DOMAIN w /\ ~(i - 1 < k) /\ (i - 1) + 1 = i
        BY <2>2, <2>5, <3>2
      <4>2. w[i - 1] = s[i]
        BY <2>4, <2>5, <4>1
      <4>3. QED
        BY <4>1, <4>2 DEF Range
    <3>3. QED
      BY <2>2, <2>5, <2>7, <3>1, <3>2
  <2>8. ASSUME NEW x, Single(s, x), NEW i \in DOMAIN w, NEW j \in DOMAIN w,
               w[i].name = x, w[j].name = x
        PROVE  i = j /\ x # n
    <3>1. PICK a \in 1..Len(s) : w[i] = s[a] /\ a = IF i < k THEN i ELSE i + 1
      BY <2>2, <2>4, <2>5
    <3>2. PICK b \in 1..Len(s) : w[j] = s[b] /\ b = IF j < k THEN j ELSE j + 1
      BY <2>2, <2>4, <2>5
    <3>3. a = b /\ a # k
      BY <2>2, <2>5, <2>8, <3>1, <3>2 DEF Single
    <3>4. x # n
      BY <2>2, <2>5, <2>8, <3>1, <3>3 DEF Single
    <3>5. QED
      BY <2>2, <2>5, <3>1, <3>2, <3>3, <3>4
  <2>9. \A x : Single(s, x) => Single(w, x)
    BY <2>8 DEF Single
  <2>10. Single(s, n) => \A e \in Range(w) : e.name # n
    BY <2>8 DEF Range
  <2>11. \A e \in Range(s) : e.name # n => e \in Range(w)
    BY <2>2, <2>7 DEF Range
  <2>12. Range(w) \subseteq Range(s)
    BY <2>6 DEF Range
  <2>13. QED
    BY <2>1, <2>3, <2>4, <2>9, <2>10, <2>11, <2>12
<1>3. QED
  BY <1>1, <1>2

\* An entry is appended.
LEMMA AppendedOne ==
    ASSUME NEW S, NEW s \in Seq(S), NEW e
    PROVE  /\ Append(s, e) \in Seq(S \cup {e})
           /\ Range(Append(s, e)) = Range(s) \cup {e}
           /\ \A x : Single(s, x) /\ (x = e.name => \A f \in Range(s) : f.name # x)
                 => Single(Append(s, e), x)
<1>1. PICK n \in Nat : n = Len(s)
  OBVIOUS
<1>2. PICK w : w = Append(s, e)
  OBVIOUS
<1>3. /\ w \in Seq(S \cup {e}) /\ DOMAIN w = 1..(n + 1) /\ DOMAIN s = 1..n
      /\ \A i \in 1..n : w[i] = s[i]
      /\ w[n + 1] = e
  <2>1. s \in Seq(S \cup {e})
    BY SeqMonotonic
  <2>2. QED
    BY <1>1, <1>2, <2>1, AppendProperties
<1>4. Range(w) = Range(s) \cup {e}
  BY <1>1, <1>3 DEF Range
<1>5. ASSUME NEW x, Single(s, x), x = e.name => \A f \in Range(s) : f.name # x,
             NEW i \in DOMAIN w, NEW j \in DOMAIN w, w[i].name = x, w[j].name = x
      PROVE  i = j
  BY <1>1, <1>3, <1>5 DEF Single, Range
<1>6. QED
  BY <1>2, <1>3, <1>4, <1>5 DEF Single
----------------------------------------------------------------------------
(* What `kongtrol init` saves and shows *)

\* The document keeps its parts; the wizard begins with a file that is as it was
\* found, and what is being added is of its own making.
WizardShapes ==
    /\ DOMAIN doc = {"form", "vpns", "policies", "on"}
    /\ doc.vpns \in Seq(Range(doc.vpns)) /\ doc.policies \in Seq(Range(doc.policies))
    /\ DOMAIN shown = {"profiles", "policies"}
    /\ wizardAt = "start" => yaml \in Files /\ doc = FreshDoc /\ shown = Nothing
    /\ wizardAt \in {"secret", "place profile", "replace profile", "replace policy"} =>
          entered[1].new
    /\ wizardAt = "replace policy" => entered[1].via \in known

\* What is to be shown and what the visit under way has added are the wizard's
\* own entries, but for those of visits that were left with Esc.
ShownOK ==
    /\ shown.profiles = NewNames(doc.vpns)
    /\ shown.policies \cup added \subseteq NewNames(doc.policies)
    /\ NewNames(doc.policies) \subseteq shown.policies \cup added \cup dropped
    /\ wizardAt \notin {"policies", "policy", "replace policy", "over"} => added = {}

\* The document of a configuration: the profiles that are known are those it
\* has, and its policies that are not the wizard's are known by name.
DocOK ==
    doc.form = "good" =>
        /\ known = Names(doc.vpns)
        /\ \A x : Single(doc.vpns, x)
        /\ \A e \in Range(doc.policies) :
              e.via \in known /\ (e.new \/ e.name \in existing.policies)
        /\ \A x : x \notin twice => Single(doc.policies, x)
        /\ wizardAt \in {"policies", "policy", "replace policy"} =>
              knownPolicies = existing.policies \cup added

WizardInv == WizardShapes /\ ShownOK /\ DocOK /\ SavedLoads

LEMMA DistinctSingle ==
    ASSUME NEW entries, NEW but
    PROVE  Distinct(entries, but) <=> \A x : x \notin but => Single(entries, x)
BY DEF Distinct, Single

\* One of the wizard's entries is appended to the others.
LEMMA EntryAppended ==
    ASSUME NEW s, s \in Seq(Range(s)), NEW e, e.new
    PROVE  LET w == Append(s, e)
           IN  /\ w \in Seq(Range(w)) /\ Range(w) = Range(s) \cup {e}
               /\ Names(w) = Names(s) \cup {e.name}
               /\ NewNames(w) = NewNames(s) \cup {e.name}
               /\ \A x : Single(s, x) /\ (x = e.name => x \notin Names(s)) => Single(w, x)
<1>1. PICK w : w = Append(s, e)
  OBVIOUS
<1>2. /\ w \in Seq(Range(s) \cup {e}) /\ Range(w) = Range(s) \cup {e}
      /\ \A x : Single(s, x) /\ (x = e.name => \A f \in Range(s) : f.name # x)
            => Single(w, x)
  BY <1>1, AppendedOne
<1>3. \A x : x \notin Names(s) => \A f \in Range(s) : f.name # x
  BY DEF Names
<1>4. Names(w) = Names(s) \cup {e.name} /\ NewNames(w) = NewNames(s) \cup {e.name}
  BY <1>2 DEF Names, NewNames
<1>5. QED
  BY <1>1, <1>2, <1>3, <1>4

\* One of the wizard's entries takes the place of another of its name.
LEMMA EntryReplaced ==
    ASSUME NEW s, s \in Seq(Range(s)), NEW e, e.new
    PROVE  LET w == Append(Without(s, e.name), e)
           IN  /\ w \in Seq(Range(w)) /\ Range(w) \subseteq Range(s) \cup {e}
               /\ e \in Range(w)
               /\ Names(w) = Names(s) \cup {e.name}
               /\ NewNames(w) = NewNames(s) \cup {e.name}
               /\ \A x : Single(s, x) => Single(w, x)
<1>1. PICK v : v = Without(s, e.name)
  OBVIOUS
<1>2. /\ v \in Seq(Range(s)) /\ Range(v) \subseteq Range(s)
      /\ \A f \in Range(s) : f.name # e.name => f \in Range(v)
      /\ \A x : Single(s, x) => Single(v, x)
      /\ Single(s, e.name) => \A f \in Range(v) : f.name # e.name
  BY <1>1, WithoutOne
<1>3. PICK w : w = Append(v, e)
  OBVIOUS
<1>4. /\ w \in Seq(Range(s) \cup {e}) /\ Range(w) = Range(v) \cup {e}
      /\ \A x : Single(v, x) /\ (x = e.name => \A f \in Range(v) : f.name # x)
            => Single(w, x)
  BY <1>2, <1>3, AppendedOne
<1>5. w \in Seq(Range(w))
  BY <1>4, SeqOfRange DEF Range
<1>6. Names(w) = Names(s) \cup {e.name} /\ NewNames(w) = NewNames(s) \cup {e.name}
  BY <1>2, <1>4 DEF Names, NewNames
<1>7. \A x : Single(s, x) => Single(w, x)
  BY <1>2, <1>4
<1>8. QED
  BY <1>1, <1>2, <1>3, <1>4, <1>5, <1>6, <1>7

LEMMA StillLoadable ==
    ASSUME NEW f, NEW but, NEW more, Loadable(f, but), but \subseteq more
    PROVE  Loadable(f, more)
BY DEF Loadable, Distinct

\* A document with the names as DocOK has them can be loaded.
LEMMA DocLoadable ==
    ASSUME DocOK, doc.form = "good"
    PROVE  Loadable(doc, twice)
BY DistinctSingle DEF DocOK, Loadable

LEMMA ProfileAppended ==
    ASSUME WizardInv, NEW vpns, vpns \in Seq(Range(vpns)),
           entered[1].new, AppendProfile(vpns),
           LET w == Append(vpns, entered[1])
           IN  /\ w \in Seq(Range(w))
               /\ Names(w) = Names(doc.vpns) \cup {entered[1].name}
               /\ NewNames(w) = NewNames(doc.vpns) \cup {entered[1].name}
               /\ doc.form = "good" => \A x : Single(w, x),
           UNCHANGED <<yaml, existing, knownPolicies, added, dropped, twice>>,
           wizardAt \in {"place profile", "replace profile"},
           wizardAt' \in {"profiles", "menu"}
    PROVE  WizardInv'
<1>1. PICK w : w = Append(vpns, entered[1])
  OBVIOUS
<1>2. doc' = [doc EXCEPT !.vpns = w] /\ known' = known \cup {entered[1].name}
  BY <1>1 DEF AppendProfile, Noted
<1>3. /\ doc'.vpns = w /\ doc'.policies = doc.policies /\ doc'.form = doc.form
      /\ DOMAIN doc' = DOMAIN doc
  BY <1>2 DEF WizardInv, WizardShapes
<1>4. /\ DOMAIN shown' = DOMAIN shown /\ shown'.policies = shown.policies
      /\ shown'.profiles = shown.profiles \cup {entered[1].name}
  BY DEF AppendProfile, WizardInv, WizardShapes
<1>5. WizardShapes'
  BY <1>1, <1>3, <1>4 DEF WizardInv, WizardShapes
<1>6. ShownOK'
  BY <1>1, <1>3, <1>4 DEF WizardInv, ShownOK
<1>7. DocOK'
  BY <1>1, <1>2, <1>3 DEF WizardInv, DocOK
<1>8. SavedLoads'
  BY DEF WizardInv, SavedLoads
<1>9. QED
  BY <1>5, <1>6, <1>7, <1>8 DEF WizardInv

LEMMA PolicyAppended ==
    ASSUME WizardInv, NEW policies, NEW e, e.new, AppendPolicy(policies, e),
           e.via \in known,
           LET w == Append(policies, e)
           IN  /\ w \in Seq(Range(w)) /\ Range(w) \subseteq Range(doc.policies) \cup {e}
               /\ NewNames(w) = NewNames(doc.policies) \cup {e.name}
               /\ doc.form = "good" => \A x : x \notin twice' => Single(w, x),
           twice \subseteq twice',
           UNCHANGED <<yaml, existing, known, shown, dropped>>,
           wizardAt \in {"policy", "replace policy"}, wizardAt' = "policies"
    PROVE  WizardInv'
<1>1. PICK w : w = Append(policies, e)
  OBVIOUS
<1>2. doc' = [doc EXCEPT !.policies = w] /\ added' = added \cup {e.name}
  BY <1>1 DEF AppendPolicy
<1>3. /\ doc'.policies = w /\ doc'.vpns = doc.vpns /\ doc'.form = doc.form
      /\ DOMAIN doc' = DOMAIN doc
  BY <1>2 DEF WizardInv, WizardShapes
<1>4. WizardShapes'
  BY <1>1, <1>3 DEF WizardInv, WizardShapes
<1>5. ShownOK'
  BY <1>1, <1>2, <1>3 DEF WizardInv, ShownOK
<1>6. DocOK'
  <2>1. SUFFICES ASSUME doc.form = "good" PROVE DocOK'
    BY <1>3 DEF DocOK
  <2>2. \A f \in Range(w) : f.via \in known /\ (f.new \/ f.name \in existing.policies)
    BY <1>1, <2>1 DEF WizardInv, DocOK
  <2>3. knownPolicies' = existing.policies \cup added'
    BY <1>2, <2>1 DEF WizardInv, DocOK, AppendPolicy
  <2>4. known = Names(doc.vpns) /\ \A x : Single(doc.vpns, x)
    BY <2>1 DEF WizardInv, DocOK
  <2>5. QED
    BY <1>1, <1>3, <2>2, <2>3, <2>4 DEF DocOK
<1>7. SavedLoads'
  BY StillLoadable DEF WizardInv, SavedLoads
<1>8. QED
  BY <1>4, <1>5, <1>6, <1>7 DEF WizardInv

PolicyForms == {"policies", "policy", "replace policy"}

LEMMA WizardTurned ==
    ASSUME WizardInv,
           UNCHANGED <<yaml, doc, existing, known, knownPolicies, added, shown, dropped, twice>>,
           wizardAt' # "start",
           wizardAt' \in {"secret", "place profile", "replace profile", "replace policy"} =>
              entered'[1].new,
           wizardAt' = "replace policy" => entered'[1].via \in known,
           wizardAt' \in PolicyForms => wizardAt \in PolicyForms,
           wizardAt' \notin PolicyForms \cup {"over"} => added = {}
    PROVE  WizardInv'
<1>1. WizardShapes'
  BY DEF WizardInv, WizardShapes
<1>2. ShownOK'
  BY DEF WizardInv, ShownOK, PolicyForms
<1>3. DocOK'
  BY DEF WizardInv, DocOK, PolicyForms
<1>4. SavedLoads'
  BY DEF WizardInv, SavedLoads
<1>5. QED
  BY <1>1, <1>2, <1>3, <1>4 DEF WizardInv

\* The step the wizard begins with.
LEMMA WizardLoads ==
    ASSUME WizardAssumption, WizardInv, LoadExisting
    PROVE  WizardInv'
<1>1. /\ yaml \in Files /\ shown = Nothing /\ added = {} /\ wizardAt = "start"
      /\ wizardAt' \in {"profiles", "menu"}
      /\ UNCHANGED <<yaml, added, shown, dropped, twice>>
  BY DEF LoadExisting, Turn, WizardInv, WizardShapes, ShownOK
<1>2. FreshDoc.vpns = <<>> /\ FreshDoc.policies = <<>>
      /\ DOMAIN FreshDoc = {"form", "vpns", "policies", "on"} /\ FreshDoc.form = "good"
  BY DEF FreshDoc
<1>3. Range(<<>>) = {} /\ <<>> \in Seq(Range(<<>>)) /\ DOMAIN <<>> = {}
  BY DEF Range
<1>4. Nothing.profiles = {} /\ Nothing.policies = {} /\ DOMAIN Nothing = {"profiles", "policies"}
  BY DEF Nothing
<1>5. CASE yaml.form = "good"
  <2>1. doc' = yaml /\ existing' = [profiles |-> Names(yaml.vpns), policies |-> Names(yaml.policies)]
        /\ known' = existing'.profiles
    BY <1>5 DEF LoadExisting
  <2>2. known' = Names(yaml.vpns) /\ existing'.policies = Names(yaml.policies)
    BY <2>1
  <2>3. /\ DOMAIN yaml = {"form", "vpns", "policies", "on"}
        /\ yaml.vpns \in Seq(Range(yaml.vpns)) /\ yaml.policies \in Seq(Range(yaml.policies))
        /\ \A e \in Range(yaml.vpns) \cup Range(yaml.policies) : ~e.new
        /\ Loadable(yaml, {})
    BY <1>1, <1>5 DEF WizardAssumption
  <2>4. NewNames(yaml.vpns) = {} /\ NewNames(yaml.policies) = {}
    BY <2>3 DEF NewNames
  <2>5. WizardShapes'
    BY <1>1, <1>4, <2>1, <2>3 DEF WizardShapes
  <2>6. ShownOK'
    BY <1>1, <1>4, <2>1, <2>4 DEF ShownOK
  <2>7. /\ \A x : Single(yaml.vpns, x) /\ Single(yaml.policies, x)
        /\ \A e \in Range(yaml.policies) : e.via \in Names(yaml.vpns) /\ e.name \in Names(yaml.policies)
    BY <2>3, DistinctSingle DEF Loadable, Names
  <2>8. DocOK'
    BY <1>1, <2>1, <2>2, <2>7 DEF DocOK
  <2>9. SavedLoads'
    BY <1>1 DEF WizardInv, SavedLoads
  <2>10. QED
    BY <2>5, <2>6, <2>8, <2>9 DEF WizardInv
<1>6. CASE yaml.form # "good" /\ yaml.form = "odd"
  <2>1. doc' = yaml /\ doc'.form # "good"
    BY <1>6 DEF LoadExisting
  <2>2. /\ DOMAIN yaml = {"form", "vpns", "policies", "on"}
        /\ yaml.vpns \in Seq(Range(yaml.vpns)) /\ yaml.policies \in Seq(Range(yaml.policies))
        /\ \A e \in Range(yaml.vpns) \cup Range(yaml.policies) : ~e.new
    BY <1>1 DEF WizardAssumption
  <2>3. NewNames(yaml.vpns) = {} /\ NewNames(yaml.policies) = {}
    BY <2>2 DEF NewNames
  <2>4. WizardShapes'
    BY <1>1, <1>4, <2>1, <2>2 DEF WizardShapes
  <2>5. ShownOK'
    BY <1>1, <1>4, <2>1, <2>3 DEF ShownOK
  <2>6. DocOK' /\ SavedLoads'
    BY <1>1, <2>1 DEF DocOK, WizardInv, SavedLoads
  <2>7. QED
    BY <2>4, <2>5, <2>6 DEF WizardInv
<1>7. CASE yaml.form # "good" /\ yaml.form # "odd"
  <2>1. doc' = FreshDoc /\ existing' = Nothing /\ known' = {}
    BY <1>4, <1>7 DEF LoadExisting
  <2>2. NewNames(<<>>) = {} /\ Names(<<>>) = {} /\ \A x : Single(<<>>, x)
    BY <1>3 DEF NewNames, Names, Single
  <2>3. WizardShapes'
    BY <1>1, <1>2, <1>3, <1>4, <2>1 DEF WizardShapes
  <2>4. ShownOK'
    BY <1>1, <1>2, <1>4, <2>1, <2>2 DEF ShownOK
  <2>5. DocOK'
    BY <1>1, <1>2, <1>3, <2>1, <2>2 DEF DocOK
  <2>6. SavedLoads'
    BY <1>1 DEF WizardInv, SavedLoads
  <2>7. QED
    BY <2>3, <2>4, <2>5, <2>6 DEF WizardInv
<1>8. QED
  BY <1>5, <1>6, <1>7

LEMMA WizardProfile ==
    ASSUME WizardInv, ProfileStep
    PROVE  WizardInv'
<1>1. CASE CollectProfile
  <2>1. entered'[1].new
    <3>1. PICK e : entered' = <<e>> /\ e.new
      <4>1. PICK name, keyed : entered' = <<NewProfile(NameOf[name], keyed)>>
        BY <1>1 DEF CollectProfile
      <4>2. NewProfile(NameOf[name], keyed).new
        BY DEF NewProfile
      <4>3. QED
        BY <4>1, <4>2
    <3>2. QED
      BY <3>1
  <2>2. /\ wizardAt = "profile" /\ wizardAt' \in {"secret", "place profile"}
        /\ UNCHANGED <<yaml, doc, existing, known, knownPolicies, added, shown, dropped, twice>>
    BY <1>1 DEF CollectProfile, Turn, docVars
  <2>3. added = {}
    BY <2>2 DEF WizardInv, ShownOK
  <2>4. QED
    BY <2>1, <2>2, <2>3, WizardTurned DEF PolicyForms
<1>2. CASE CollectCredentials
  <2>1. /\ wizardAt = "secret" /\ wizardAt' = "place profile"
        /\ UNCHANGED <<yaml, doc, existing, known, knownPolicies, added, shown, dropped, twice,
                       entered>>
    BY <1>2 DEF CollectCredentials, Turn, formVars
  <2>2. added = {} /\ entered[1].new
    BY <2>1 DEF WizardInv, ShownOK, WizardShapes
  <2>3. QED
    BY <2>1, <2>2, WizardTurned DEF PolicyForms
<1>3. CASE PlaceProfile
  <2>1. wizardAt = "place profile" /\ added = {} /\ entered[1].new
    BY <1>3 DEF PlaceProfile, WizardInv, ShownOK, WizardShapes
  <2>2. UNCHANGED <<yaml, existing, knownPolicies, added, dropped, twice>>
    BY <1>3 DEF PlaceProfile
  <2>3. CASE entered[1].name \in known
    <3>1. wizardAt' = "replace profile" /\ UNCHANGED <<doc, known, shown, entered>>
      BY <1>3, <2>3 DEF PlaceProfile, Turn
    <3>2. QED
      BY <2>1, <2>2, <3>1, WizardTurned DEF PolicyForms
  <2>4. CASE entered[1].name \notin known
    <3>1. wizardAt' \in {"profiles", "menu"} /\ AppendProfile(doc.vpns)
      BY <1>3, <2>4 DEF PlaceProfile, Turn, Onward
    <3>2. doc.vpns \in Seq(Range(doc.vpns))
      BY DEF WizardInv, WizardShapes
    <3>3. PICK w : w = Append(doc.vpns, entered[1])
      OBVIOUS
    <3>4. /\ w \in Seq(Range(w))
          /\ Names(w) = Names(doc.vpns) \cup {entered[1].name}
          /\ NewNames(w) = NewNames(doc.vpns) \cup {entered[1].name}
          /\ \A x : Single(doc.vpns, x) /\ (x = entered[1].name => x \notin Names(doc.vpns))
                => Single(w, x)
      BY <2>1, <3>2, <3>3, EntryAppended
    <3>5. doc.form = "good" => \A x : Single(w, x)
      BY <2>4, <3>4 DEF WizardInv, DocOK
    <3>6. QED
      BY <2>1, <2>2, <3>1, <3>2, <3>3, <3>4, <3>5, ProfileAppended
  <2>5. QED
    BY <2>3, <2>4
<1>4. CASE ReplaceProfile
  <2>1. /\ wizardAt = "replace profile" /\ added = {} /\ entered[1].new
        /\ wizardAt' \in {"profiles", "menu"}
    BY <1>4 DEF ReplaceProfile, Turn, Onward, WizardInv, ShownOK, WizardShapes
  <2>2. UNCHANGED <<yaml, existing, knownPolicies, added, dropped, twice>>
    BY <1>4 DEF ReplaceProfile
  <2>3. CASE AppendProfile(Without(doc.vpns, entered[1].name))
    <3>1. doc.vpns \in Seq(Range(doc.vpns))
      BY DEF WizardInv, WizardShapes
    <3>2. PICK v : v = Without(doc.vpns, entered[1].name)
      OBVIOUS
    <3>3. PICK w : w = Append(v, entered[1])
      OBVIOUS
    <3>4. /\ w \in Seq(Range(w))
          /\ Names(w) = Names(doc.vpns) \cup {entered[1].name}
          /\ NewNames(w) = NewNames(doc.vpns) \cup {entered[1].name}
          /\ \A x : Single(doc.vpns, x) => Single(w, x)
      BY <2>1, <3>1, <3>2, <3>3, EntryReplaced
    <3>5. v \in Seq(Range(v))
      <4>1. v \in Seq(Range(doc.vpns))
        BY <3>1, <3>2, WithoutOne
      <4>2. QED
        BY <4>1, SeqOfRange DEF Range
    <3>6. doc.form = "good" => \A x : Single(w, x)
      BY <3>4 DEF WizardInv, DocOK
    <3>7. AppendProfile(v)
      BY <2>3, <3>2
    <3>8. QED
      BY <2>1, <2>2, <3>3, <3>4, <3>5, <3>6, <3>7, ProfileAppended
  <2>4. CASE UNCHANGED <<doc, known, shown>>
    BY <2>1, <2>2, <2>4, WizardTurned DEF PolicyForms
  <2>5. QED
    BY <1>4, <2>3, <2>4 DEF ReplaceProfile
<1>5. QED
  BY <1>1, <1>2, <1>3, <1>4 DEF ProfileStep

LEMMA WizardPolicies ==
    ASSUME WizardInv, PoliciesStep
    PROVE  WizardInv'
<1>1. CASE OpenPolicies
  <2>1. /\ wizardAt = "open policies" /\ wizardAt' \in {"security", "menu", "policies"}
        /\ UNCHANGED <<yaml, doc, existing, known, added, shown, dropped, twice>>
        /\ knownPolicies' = existing.policies
    BY <1>1 DEF OpenPolicies, Turn, Onward, docVars
  <2>2. added = {}
    BY <2>1 DEF WizardInv, ShownOK
  <2>3. WizardShapes' /\ ShownOK' /\ SavedLoads'
    BY <2>1, <2>2 DEF WizardInv, WizardShapes, ShownOK, SavedLoads
  <2>4. DocOK'
    BY <2>1, <2>2 DEF WizardInv, DocOK
  <2>5. QED
    BY <2>3, <2>4 DEF WizardInv
<1>2. CASE AskPolicy
  <2>1. /\ wizardAt = "policies" /\ wizardAt' = "policy"
        /\ UNCHANGED <<yaml, doc, existing, known, knownPolicies, added, shown, dropped, twice>>
    BY <1>2 DEF AskPolicy, Turn, docVars, formVars
  <2>2. QED
    BY <2>1, WizardTurned DEF PolicyForms
<1>3. CASE CollectPolicy
  <2>1. /\ wizardAt = "policy"
        /\ UNCHANGED <<yaml, existing, known, shown, dropped>>
    BY <1>3 DEF CollectPolicy, Turn
  <2>2. CASE wizardAt' = "policies" /\ UNCHANGED <<doc, knownPolicies, added, twice, entered>>
    BY <2>1, <2>2, WizardTurned DEF PolicyForms
  <2>3. ASSUME NEW name \in PolicyNames, NEW via \in known, name \in knownPolicies,
               wizardAt' = "replace policy", entered' = <<NewPolicy(name, via)>>,
               UNCHANGED <<doc, knownPolicies, added, twice>>
        PROVE  WizardInv'
    <3>1. NewPolicy(name, via).new /\ NewPolicy(name, via).via \in known
      BY DEF NewPolicy
    <3>2. entered'[1] = NewPolicy(name, via)
      BY <2>3
    <3>3. QED
      BY <2>1, <2>3, <3>1, <3>2, WizardTurned DEF PolicyForms
  <2>4. ASSUME NEW name \in PolicyNames, NEW via \in known, name \notin knownPolicies,
               wizardAt' = "policies", AppendPolicy(doc.policies, NewPolicy(name, via)),
               twice' = twice \cup ({name} \cap (NewNames(doc.policies) \ added))
        PROVE  WizardInv'
    <3>1. PICK e : /\ e = NewPolicy(name, via)
                   /\ e.new /\ e.via \in known /\ e.name = name
      <4>1. /\ NewPolicy(name, via).new /\ NewPolicy(name, via).via = via
            /\ NewPolicy(name, via).name = name
        BY DEF NewPolicy
      <4>2. QED
        BY <4>1
    <3>2. doc.policies \in Seq(Range(doc.policies))
      BY DEF WizardInv, WizardShapes
    <3>3. PICK w : w = Append(doc.policies, e)
      OBVIOUS
    <3>4. /\ w \in Seq(Range(w)) /\ Range(w) \subseteq Range(doc.policies) \cup {e}
          /\ NewNames(w) = NewNames(doc.policies) \cup {e.name}
          /\ \A x : Single(doc.policies, x) /\ (x = e.name => x \notin Names(doc.policies))
                => Single(w, x)
      BY <3>1, <3>2, <3>3, EntryAppended
    <3>5. ASSUME doc.form = "good", NEW x, x \notin twice'
          PROVE  Single(w, x)
      <4>1. Single(doc.policies, x)
        BY <2>4, <3>5 DEF WizardInv, DocOK
      <4>2. ASSUME x = name, NEW f \in Range(doc.policies), f.name = x PROVE FALSE
        <5>1. knownPolicies = existing.policies \cup added
          BY <2>1, <3>5 DEF WizardInv, DocOK
        <5>2. f.new
          BY <2>4, <3>5, <4>2, <5>1 DEF WizardInv, DocOK
        <5>3. name \in NewNames(doc.policies)
          BY <4>2, <5>2 DEF NewNames
        <5>4. QED
          BY <2>4, <3>5, <4>2, <5>1, <5>3
      <4>3. x = name => x \notin Names(doc.policies)
        BY <4>2 DEF Names
      <4>4. QED
        BY <3>1, <3>4, <4>1, <4>3
    <3>6. twice \subseteq twice'
      BY <2>4
    <3>7. AppendPolicy(doc.policies, e)
      BY <2>4, <3>1
    <3>8. QED
      BY <2>1, <2>4, <3>1, <3>3, <3>4, <3>5, <3>6, <3>7, PolicyAppended
  <2>5. QED
    BY <1>3, <2>2, <2>3, <2>4 DEF CollectPolicy, Turn
<1>4. CASE ReplacePolicy
  <2>1. /\ wizardAt = "replace policy" /\ wizardAt' = "policies"
        /\ UNCHANGED <<yaml, existing, known, shown, dropped, twice>>
        /\ entered[1].new /\ entered[1].via \in known
    BY <1>4 DEF ReplacePolicy, Turn, WizardInv, WizardShapes
  <2>2. CASE AppendPolicy(Without(doc.policies, entered[1].name), entered[1])
    <3>1. doc.policies \in Seq(Range(doc.policies))
      BY DEF WizardInv, WizardShapes
    <3>2. PICK e : e = entered[1] /\ e.new /\ e.via \in known
      BY <2>1
    <3>3. PICK v : v = Without(doc.policies, e.name)
      OBVIOUS
    <3>4. PICK w : w = Append(v, e)
      OBVIOUS
    <3>5. /\ w \in Seq(Range(w)) /\ Range(w) \subseteq Range(doc.policies) \cup {e}
          /\ NewNames(w) = NewNames(doc.policies) \cup {e.name}
          /\ \A x : Single(doc.policies, x) => Single(w, x)
      BY <3>1, <3>2, <3>3, <3>4, EntryReplaced
    <3>6. doc.form = "good" => \A x : x \notin twice' => Single(w, x)
      BY <2>1, <3>5 DEF WizardInv, DocOK
    <3>7. AppendPolicy(v, e) /\ twice \subseteq twice'
      BY <2>1, <2>2, <3>2, <3>3
    <3>8. QED
      BY <2>1, <3>2, <3>4, <3>5, <3>6, <3>7, PolicyAppended
  <2>3. CASE entered' = <<>> /\ UNCHANGED <<doc, knownPolicies, added>>
    BY <2>1, <2>3, WizardTurned DEF PolicyForms
  <2>4. QED
    BY <1>4, <2>2, <2>3 DEF ReplacePolicy
<1>5. CASE ClosePolicies
  <2>1. /\ wizardAt = "policies" /\ wizardAt' \in {"security", "menu"}
        /\ UNCHANGED <<yaml, doc, existing, known, dropped, twice>>
        /\ added' = {} /\ shown' = [shown EXCEPT !.policies = @ \cup added]
    BY <1>5 DEF ClosePolicies, Turn, Onward, AllVisits, docVars
  <2>2. /\ DOMAIN shown' = DOMAIN shown /\ shown'.profiles = shown.profiles
        /\ shown'.policies = shown.policies \cup added
    BY <2>1 DEF WizardInv, WizardShapes
  <2>3. WizardShapes' /\ SavedLoads'
    BY <2>1, <2>2 DEF WizardInv, WizardShapes, SavedLoads
  <2>4. ShownOK'
    BY <2>1, <2>2 DEF WizardInv, ShownOK
  <2>5. DocOK'
    BY <2>1 DEF WizardInv, DocOK
  <2>6. QED
    BY <2>3, <2>4, <2>5 DEF WizardInv
<1>6. QED
  BY <1>1, <1>2, <1>3, <1>4, <1>5 DEF PoliciesStep

LEMMA WizardNext ==
    ASSUME WizardAssumption, WizardInv, [Next]_vars
    PROVE  WizardInv'
<1>1. CASE UNCHANGED wizardVars
  <2>1. UNCHANGED <<yaml, doc, existing, wizardAt, known, knownPolicies, entered, added, shown,
                    dropped, twice>>
    BY <1>1 DEF wizardVars, docVars, formVars
  <2>2. WizardShapes' /\ ShownOK' /\ SavedLoads'
    BY <2>1 DEF WizardInv, WizardShapes, ShownOK, SavedLoads
  <2>3. DocOK'
    BY <2>1 DEF WizardInv, DocOK
  <2>4. QED
    BY <2>2, <2>3 DEF WizardInv
<1>2. CASE Quit \/ ChooseAction \/ AskProfile \/ ChooseRefresh \/ Refresh \/ Confirm
  <2>1. /\ UNCHANGED <<yaml, doc, existing, known, knownPolicies, added, shown, dropped, twice>>
        /\ \/ wizardAt' = "over"
           \/ /\ wizardAt \in {"menu", "profiles", "choose refresh", "refresh", "review"}
              /\ wizardAt' \in {"profile", "choose refresh", "open policies", "security",
                                "review", "menu", "refresh", "write"}
    BY <1>2 DEF Quit, ChooseAction, AskProfile, ChooseRefresh, Refresh, Confirm, Turn, docVars,
                formVars
  <2>2. wizardAt' = "over" \/ added = {}
    BY <2>1 DEF WizardInv, ShownOK
  <2>3. QED
    BY <2>1, <2>2, WizardTurned DEF PolicyForms
<1>3. CASE Escape
  <2>1. /\ UNCHANGED <<yaml, doc, existing, known, knownPolicies, shown, twice>>
        /\ dropped' = dropped \cup added /\ added' = {}
        /\ wizardAt' \in {"open policies", "over", "menu"}
    BY <1>3 DEF Escape, docVars
  <2>2. WizardShapes' /\ ShownOK' /\ SavedLoads'
    BY <2>1 DEF WizardInv, WizardShapes, ShownOK, SavedLoads
  <2>3. DocOK'
    BY <2>1 DEF WizardInv, DocOK
  <2>4. QED
    BY <2>2, <2>3 DEF WizardInv
<1>4. CASE CollectSecurity
  <2>1. /\ wizardAt = "security" /\ wizardAt' \in {"review", "menu"}
        /\ UNCHANGED <<yaml, existing, known, knownPolicies, added, shown, dropped, twice>>
        /\ \E chosen : doc' = [doc EXCEPT !.on = @ \cup chosen]
    BY <1>4 DEF CollectSecurity, Turn, Onward
  <2>2. /\ DOMAIN doc' = DOMAIN doc /\ doc'.form = doc.form
        /\ doc'.vpns = doc.vpns /\ doc'.policies = doc.policies
    BY <2>1 DEF WizardInv, WizardShapes
  <2>3. added = {}
    BY <2>1 DEF WizardInv, ShownOK
  <2>4. WizardShapes' /\ ShownOK' /\ SavedLoads'
    BY <2>1, <2>2, <2>3 DEF WizardInv, WizardShapes, ShownOK, SavedLoads
  <2>5. DocOK'
    BY <2>1, <2>2 DEF WizardInv, DocOK
  <2>6. QED
    BY <2>4, <2>5 DEF WizardInv
<1>5. CASE Truncate \/ WriteDoc
  <2>1. /\ wizardAt \in {"write", "cut"} /\ wizardAt' \in {"cut", "over"}
        /\ UNCHANGED <<doc, existing, known, knownPolicies, added, shown, dropped, twice>>
        /\ yaml' \in {yaml, doc, Garbled}
    BY <1>5 DEF Truncate, WriteDoc, Turn, formVars
  <2>2. Garbled.form # "good"
    BY DEF Garbled, FreshDoc
  <2>3. SavedLoads'
    BY <2>1, <2>2, DocLoadable DEF WizardInv, SavedLoads
  <2>4. WizardShapes' /\ ShownOK'
    BY <2>1 DEF WizardInv, WizardShapes, ShownOK
  <2>5. DocOK'
    BY <2>1 DEF WizardInv, DocOK
  <2>6. QED
    BY <2>3, <2>4, <2>5 DEF WizardInv
<1>6. UNCHANGED wizardVars \/ WizardStep
  BY DEF Next, vars, Token, Log, Edit, Others, Setup
<1>7. QED
  BY <1>1, <1>2, <1>3, <1>4, <1>5, <1>6, WizardLoads, WizardProfile, WizardPolicies
     DEF WizardStep

\* A file as the wizard may find it loads, and nothing is shown yet.
LEMMA WizardInit ==
    ASSUME WizardAssumption, Init
    PROVE  WizardInv
<1>1. /\ yaml \in Files /\ doc = FreshDoc /\ known = {} /\ added = {} /\ shown = Nothing
      /\ wizardAt = "start"
  BY DEF Init, InitWizard
<1>2. /\ DOMAIN doc = {"form", "vpns", "policies", "on"}
      /\ doc.vpns = <<>> /\ doc.policies = <<>>
  BY <1>1 DEF FreshDoc
<1>3. Range(<<>>) = {} /\ <<>> \in Seq(Range(<<>>)) /\ DOMAIN <<>> = {}
  BY DEF Range
<1>4. NewNames(<<>>) = {} /\ Names(<<>>) = {} /\ \A x : Single(<<>>, x)
  BY <1>3 DEF NewNames, Names, Single
<1>5. shown.profiles = {} /\ shown.policies = {} /\ DOMAIN shown = {"profiles", "policies"}
  BY <1>1 DEF Nothing
<1>6. WizardShapes
  BY <1>1, <1>2, <1>3, <1>5 DEF WizardShapes
<1>7. ShownOK /\ DocOK
  BY <1>1, <1>2, <1>3, <1>4, <1>5 DEF ShownOK, DocOK
<1>8. SavedLoads
  BY <1>1, StillLoadable DEF SavedLoads, WizardAssumption
<1>9. QED
  BY <1>6, <1>7, <1>8 DEF WizardInv

\* However often profiles and policies are added, replaced and abandoned, and
\* wherever the wizard is left, what it saves can be loaded as far as names go
\* (wizard*.go; semantics.go:15-29).
THEOREM SavedConfigurationLoads == Spec => []SavedLoads
<1>1. WizardInv => SavedLoads
  BY DEF WizardInv
<1>2. QED
  BY <1>1, WizardAssumption, WizardInit, WizardNext, PTL DEF Spec

\* The review shows every profile and policy that the wizard will write, and
\* nothing else, but for policies of a visit that was left with Esc
\* (wizard.go, renderReviewPanel).
THEOREM ReviewIsComplete == Spec => []ReviewShowsAll
<1>1. WizardInv => ReviewShowsAll
  BY DEF WizardInv, ShownOK, ReviewShowsAll
<1>2. QED
  BY <1>1, WizardAssumption, WizardInit, WizardNext, PTL DEF Spec
=============================================================================
