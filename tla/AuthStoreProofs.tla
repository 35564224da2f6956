--------------------------- MODULE AuthStoreProofs ---------------------------
(***************************************************************************)
(* Proofs that auth.json keeps what was saved and that a stored login      *)
(* stays usable, for any number of processes, tokens and logins, while no  *)
(* two saves overlap and none replaces a store it has not loaded.          *)
(***************************************************************************)
EXTENDS AuthStore, FiniteSetTheorems, TLAPS

IsStore(s) == s = [codex |-> s.codex, openrouter |-> s.openrouter]

\* The state of a process has the fields its program point calls for.
HasShape(s) ==
    /\ s.pc = "poll" => s = [pc |-> s.pc, wake |-> s.wake, deadline |-> s.deadline,
                             interval |-> s.interval, approved |-> s.approved]
    /\ s.pc = "refresh" => s = [pc |-> s.pc, loaded |-> s.loaded, stale |-> s.stale]
    /\ s.pc = "open" => s = [pc |-> s.pc, provider |-> s.provider, stale |-> s.stale, body |-> s.body]
    /\ s.pc \in {"write", "rename"} =>
          s = [pc |-> s.pc, fd |-> s.fd, provider |-> s.provider, stale |-> s.stale, body |-> s.body]
    /\ s.pc \in Saving \union {"refresh"} => s.stale \in BOOLEAN
    /\ s.pc \in Saving => s.provider \in Providers

ShapeInv ==
    /\ disk = [i \in Inodes |-> disk[i]]
    /\ names = [auth |-> names.auth, tmp |-> names.tmp]
    /\ given \in Nat
    /\ proc = [p \in Procs |-> proc[p]]
    /\ \A p \in Procs : HasShape(proc[p])

Calm == ~raced /\ ~overlap
Writing(p) == proc[p].pc \in {"write", "rename"}

\* One process at most is inside a save.  It holds the temporary file, which is
\* not the store, and what it has written there is its body.
FileInv ==
    Calm =>
        /\ names.auth \in Inodes \union {None} /\ names.tmp \in Inodes \union {None}
        /\ names.auth # None => names.auth # names.tmp
        /\ IsStore(OnDisk)
        /\ \A p \in Procs : Writing(p) =>
              /\ names.tmp # None /\ proc[p].fd = names.tmp
              /\ disk[names.tmp] = IF At(p, "write") THEN Blank ELSE proc[p].body
              /\ \A q \in Procs : Writing(q) => q = p

\* What a process that is not stale will save is the store with its own
\* provider replaced; what it has loaded is the store.
Loads(p) ==
    /\ proc[p].pc \in Saving /\ ~proc[p].stale =>
          /\ Parses(OnDisk) /\ IsStore(proc[p].body)
          /\ proc[p].body = [OnDisk EXCEPT ![proc[p].provider] = proc[p].body[proc[p].provider]]
    /\ At(p, "refresh") =>
          /\ IsStore(proc[p].loaded)
          /\ ~proc[p].stale => Parses(OnDisk) /\ OnDisk.codex # None /\ proc[p].loaded = OnDisk

LoadInv == Calm => \A p \in Procs : Loads(p)

\* The refresh token p is about to save is good, and no refresh can use it up.
Unused(p) ==
    /\ proc[p].body.codex.refresh \in valid
    /\ \A q \in Procs : At(q, "refresh") => proc[q].loaded.codex.refresh # proc[p].body.codex.refresh

SavesLogin(p) == proc[p].pc \in Saving /\ proc[p].provider = "codex"

GivenOut(p) ==
    /\ At(p, "refresh") => proc[p].loaded.codex.refresh \in 0 .. given
    /\ SavesLogin(p) => proc[p].body.codex.refresh \in 0 .. given

Saves(p) ==
    SavesLogin(p) /\ ~proc[p].stale =>
        \/ OnDisk.codex # None /\ proc[p].body.codex.refresh = OnDisk.codex.refresh
        \/ Unused(p)

StoredIsGood ==
    \/ ~Parses(OnDisk) \/ OnDisk.codex = None
    \/ OnDisk.codex.refresh \in valid

\* A login to be saved is the stored one or a new one nobody else can use; as
\* long as none was lost, the stored one is good or a new one is on its way.
TokenInv ==
    Calm =>
        /\ Parses(OnDisk) /\ OnDisk.codex # None => OnDisk.codex.refresh \in 0 .. given
        /\ \A p \in Procs : GivenOut(p)
        /\ \A p \in Procs : Saves(p)
        /\ ~lost => StoredIsGood \/ \E p \in Procs : SavesLogin(p) /\ Unused(p)

-----------------------------------------------------------------------------
(* Shapes.                                                                 *)

\* A step that gives one process a state of the right shape.
LEMMA BecomeShape ==
    ASSUME ShapeInv, NEW p \in Procs, NEW s, HasShape(s), Become(p, s)
    PROVE  /\ proc' = [q \in Procs |-> proc'[q]]
           /\ \A q \in Procs : HasShape(proc'[q])
           /\ proc'[p] = s
           /\ \A q \in Procs \ {p} : proc'[q] = proc[q]
<1>1. /\ proc' = [q \in Procs |-> IF q = p THEN s ELSE proc[q]]
  BY DEF ShapeInv, Become
<1> QED
  BY <1>1 DEF ShapeInv

LEMMA QuitShape ==
    ASSUME ShapeInv, NEW p \in Procs, Quit(p)
    PROVE  /\ proc' = [q \in Procs |-> proc'[q]]
           /\ \A q \in Procs : HasShape(proc'[q])
           /\ proc'[p] = Idle
           /\ \A q \in Procs \ {p} : proc'[q] = proc[q]
<1>1. HasShape(Idle)
  BY DEF HasShape, Idle, Saving
<1> QED
  BY <1>1, BecomeShape DEF Quit

\* With no save under way there is an inode for a temporary file.
LEMMA FreeInode ==
    ASSUME Held = {}, names.tmp = None
    PROVE  Lowest(Free) \in Inodes /\ Lowest(Free) # names.auth /\ Lowest(Free) # None
<1>1. Cardinality(Procs) \in Nat
  BY AuthAssumption, FS_CardinalityType
<1>2. Inodes = 1 .. Cardinality(Procs) + 2 /\ None \notin Inodes
  BY AuthAssumption DEF Inodes
<1>3. Free = {i \in Inodes : i # names.auth}
  BY <1>2 DEF Free
<1>4. 1 \in Inodes /\ 2 \in Inodes /\ \A i \in Inodes : i \in Nat /\ (i = 1 \/ 2 <= i)
  BY <1>1, <1>2
<1>5. \E i \in Free : \A j \in Free : i <= j
  <2>1. CASE names.auth = 1
    <3>1. 2 \in Free /\ \A j \in Free : 2 <= j
      BY <1>3, <1>4, <2>1
    <3> QED
      BY <3>1
  <2>2. CASE names.auth # 1
    <3>1. 1 \in Free /\ \A j \in Free : 1 <= j
      BY <1>3, <1>4, <2>2
    <3> QED
      BY <3>1
  <2> QED
    BY <2>1, <2>2
<1>6. Lowest(Free) \in Free
  BY <1>5 DEF Lowest
<1> QED
  BY <1>2, <1>3, <1>6

\* Opening gives p the temporary file and keeps what it will save.
LEMMA OpenShape ==
    ASSUME ShapeInv, NEW p \in Procs, OpenTmp(p)
    PROVE  /\ ShapeInv' /\ At(p, "open")
           /\ \A q \in Procs \ {p} : proc'[q] = proc[q]
           /\ proc'[p] = [pc |-> "write", fd |-> names'.tmp, provider |-> proc[p].provider,
                          stale |-> proc[p].stale, body |-> proc[p].body]
           /\ names' = [auth |-> names.auth, tmp |-> IF names.tmp = None THEN Lowest(Free) ELSE names.tmp]
           /\ disk' = [disk EXCEPT ![names'.tmp] = Blank]
<1> DEFINE s == [pc |-> "write", fd |-> names'.tmp, provider |-> proc[p].provider,
                 stale |-> proc[p].stale, body |-> proc[p].body]
<1>1. /\ names' = [auth |-> names.auth, tmp |-> IF names.tmp = None THEN Lowest(Free) ELSE names.tmp]
      /\ disk' = [disk EXCEPT ![names'.tmp] = Blank]
  BY DEF OpenTmp, ShapeInv
<1>2. At(p, "open") /\ HasShape(proc[p])
  BY DEF OpenTmp, ShapeInv
<1>3. HasShape(s)
  BY <1>2 DEF HasShape, At, Saving
<1>4. Become(p, s)
  BY <1>1 DEF OpenTmp, Become, ShapeInv
<1> HIDE DEF s
<1>5. /\ proc' = [q \in Procs |-> proc'[q]] /\ \A q \in Procs : HasShape(proc'[q])
      /\ proc'[p] = s /\ \A q \in Procs \ {p} : proc'[q] = proc[q]
  BY <1>3, <1>4, BecomeShape
<1>6. disk' = [i \in Inodes |-> disk'[i]] /\ names' = [auth |-> names'.auth, tmp |-> names'.tmp]
      /\ given' \in Nat
  BY <1>1 DEF OpenTmp, ShapeInv
<1> QED
  BY <1>1, <1>2, <1>5, <1>6 DEF ShapeInv, s

LEMMA WriteShape ==
    ASSUME ShapeInv, NEW p \in Procs, WriteTmp(p)
    PROVE  /\ ShapeInv' /\ At(p, "write")
           /\ \A q \in Procs \ {p} : proc'[q] = proc[q]
           /\ proc'[p] = [pc |-> "rename", fd |-> proc[p].fd, provider |-> proc[p].provider,
                          stale |-> proc[p].stale, body |-> proc[p].body]
<1> DEFINE s == [pc |-> "rename", fd |-> proc[p].fd, provider |-> proc[p].provider,
                 stale |-> proc[p].stale, body |-> proc[p].body]
<1>1. At(p, "write") /\ HasShape(proc[p])
  BY DEF WriteTmp, ShapeInv
<1>2. HasShape(s)
  BY <1>1 DEF HasShape, At, Saving
<1>3. s = [proc[p] EXCEPT !.pc = "rename"]
  BY <1>1 DEF HasShape, At
<1>4. Become(p, s)
  BY <1>3 DEF WriteTmp
<1> HIDE DEF s
<1>5. /\ proc' = [q \in Procs |-> proc'[q]] /\ \A q \in Procs : HasShape(proc'[q])
      /\ proc'[p] = s /\ \A q \in Procs \ {p} : proc'[q] = proc[q]
  BY <1>2, <1>4, BecomeShape
<1>6. disk' = [i \in Inodes |-> disk'[i]]
  BY DEF WriteTmp, ShapeInv
<1>7. names' = names /\ given' = given
  BY DEF WriteTmp
<1> QED
  BY <1>1, <1>5, <1>6, <1>7 DEF ShapeInv, s

\* A rename makes the others stale and leaves what they hold as it was.
LEMMA RenameShape ==
    ASSUME ShapeInv, NEW p \in Procs, RenameTmp(p), names.tmp # None
    PROVE  /\ ShapeInv' /\ proc'[p] = Idle
           /\ \A q \in Procs \ {p} :
                 /\ proc'[q].pc = proc[q].pc
                 /\ proc[q].pc \in Saving \union {"refresh"} => proc'[q].stale
                 /\ proc[q].pc \in Saving =>
                       proc'[q].body = proc[q].body /\ proc'[q].provider = proc[q].provider
                 /\ Writing(q) => proc'[q].fd = proc[q].fd
                 /\ At(q, "refresh") => proc'[q].loaded = proc[q].loaded
           /\ names' = [auth |-> names.tmp, tmp |-> None]
           /\ disk' = [i \in Inodes |-> IF i \in Held \union {names.tmp} THEN disk[i] ELSE Blank]
<1>1. /\ names' = [auth |-> names.tmp, tmp |-> None] /\ given' = given
      /\ disk' = [i \in Inodes |-> IF i \in Held \union {names.tmp} THEN disk[i] ELSE Blank]
      /\ proc' = Replaced(p)
  BY DEF RenameTmp
<1>2. HasShape(Idle)
  BY DEF HasShape, Idle, Saving
<1>3. ASSUME NEW q \in Procs \ {p}
      PROVE  /\ HasShape(proc'[q])
             /\ proc'[q].pc = proc[q].pc
             /\ proc[q].pc \in Saving \union {"refresh"} => proc'[q].stale
             /\ proc[q].pc \in Saving =>
                   proc'[q].body = proc[q].body /\ proc'[q].provider = proc[q].provider
             /\ Writing(q) => proc'[q].fd = proc[q].fd
             /\ At(q, "refresh") => proc'[q].loaded = proc[q].loaded
  <2>1. HasShape(proc[q])
    BY DEF ShapeInv
  <2>2. CASE proc[q].pc \notin Saving \union {"refresh"}
    <3>1. proc'[q] = proc[q]
      BY <1>1, <2>2 DEF Replaced
    <3> QED
      BY <2>1, <2>2, <3>1 DEF Writing, At, Saving
  <2>3. CASE proc[q].pc \in Saving \union {"refresh"}
    <3>1. proc'[q] = [proc[q] EXCEPT !.stale = TRUE]
      BY <1>1, <2>3 DEF Replaced
    <3>2. CASE At(q, "refresh")
      BY <2>1, <3>1, <3>2 DEF HasShape, At, Saving, Writing
    <3>3. CASE At(q, "open")
      BY <2>1, <3>1, <3>3 DEF HasShape, At, Saving, Writing
    <3>4. CASE Writing(q)
      BY <2>1, <3>1, <3>4 DEF HasShape, At, Saving, Writing
    <3> QED
      BY <2>3, <3>2, <3>3, <3>4 DEF Saving, At, Writing
  <2> QED
    BY <2>2, <2>3
<1>4. proc'[p] = Idle /\ proc' = [q \in Procs |-> proc'[q]]
  BY <1>1 DEF Replaced
<1>5. \A q \in Procs : HasShape(proc'[q])
  BY <1>2, <1>3, <1>4
<1>6. ShapeInv'
  <2>1. names' = [auth |-> names'.auth, tmp |-> names'.tmp] /\ disk' = [i \in Inodes |-> disk'[i]]
        /\ given' \in Nat
    BY <1>1 DEF ShapeInv
  <2> QED
    BY <1>4, <1>5, <2>1 DEF ShapeInv
<1> QED
  BY <1>1, <1>3, <1>4, <1>6

\* A step of p outside the writing of the file.
Quiet(p) ==
    /\ UNCHANGED <<disk, names, raced, overlap>>
    /\ \A q \in Procs \ {p} : proc'[q] = proc[q]
    /\ ~Writing(p) /\ ~Writing(p)'

LEMMA QuietBecomes ==
    ASSUME ShapeInv, NEW p \in Procs, NEW s, HasShape(s), s.pc \notin {"write", "rename"}, Become(p, s),
           UNCHANGED <<disk, names, raced, overlap>>, given' \in Nat, ~Writing(p)
    PROVE  ShapeInv' /\ Quiet(p) /\ proc'[p] = s
BY BecomeShape DEF ShapeInv, Quiet, Writing

LEMMA QuietQuits ==
    ASSUME ShapeInv, NEW p \in Procs, Quit(p),
           UNCHANGED <<disk, names, raced, overlap>>, given' \in Nat, ~Writing(p)
    PROVE  ShapeInv' /\ Quiet(p) /\ proc'[p] = Idle
<1>1. HasShape(Idle) /\ Idle.pc \notin {"write", "rename"}
  BY DEF HasShape, Idle, Saving
<1> QED
  BY <1>1, QuietBecomes DEF Quit

\* What each step outside the writing of the file makes of its process.
LEMMA TokenShape ==
    ASSUME ShapeInv, NEW p \in Procs, Token(p)
    PROVE  /\ ShapeInv' /\ Quiet(p)
           /\ proc'[p] = [pc |-> "refresh", loaded |-> OnDisk, stale |-> FALSE]
<1> DEFINE s == [pc |-> "refresh", loaded |-> OnDisk, stale |-> FALSE]
<1>1. HasShape(s) /\ s.pc \notin {"write", "rename"}
  BY DEF HasShape, Saving
<1>2. Become(p, s) /\ UNCHANGED <<disk, names, raced, overlap, given>> /\ ~Writing(p)
  BY DEF Token, ghosts, At, Writing
<1> HIDE DEF s
<1>3. given' \in Nat
  BY <1>2 DEF ShapeInv
<1>4. ShapeInv' /\ Quiet(p) /\ proc'[p] = s
  BY <1>1, <1>2, <1>3, QuietBecomes
<1> QED
  BY <1>4 DEF s

\* The steps of a login before its end, and those that end it without a save.
WaitStep(p) ==
    \/ LoginCodex(p) \/ LoginOpenrouter(p) \/ Approve(p) \/ Poll(p)
    \/ Callback(p) \/ BrowserTimeout(p)

LEMMA ApprovedShape ==
    ASSUME NEW s, NEW v, HasShape(s), s.pc = "poll"
    PROVE  HasShape([s EXCEPT !.approved = v]) /\ [s EXCEPT !.approved = v].pc = "poll"
<1>1. s = [pc |-> s.pc, wake |-> s.wake, deadline |-> s.deadline,
           interval |-> s.interval, approved |-> s.approved]
  BY DEF HasShape
<1> QED
  BY <1>1 DEF HasShape, Saving

LEMMA WaitShape ==
    ASSUME ShapeInv, NEW p \in Procs, WaitStep(p)
    PROVE  /\ ShapeInv' /\ Quiet(p)
           /\ proc[p].pc \notin Saving \union {"refresh"}
           /\ proc'[p].pc \notin Saving \union {"refresh"}
           /\ proc'[p].pc \in {"idle", "poll", "exchange", "browser", "key"}
           /\ UNCHANGED <<valid, given, lost>>
<1>1. /\ UNCHANGED <<disk, names, raced, overlap>> /\ UNCHANGED <<valid, given, lost>>
      /\ proc[p].pc \in {"idle", "poll", "browser"} /\ given' \in Nat
  BY DEF WaitStep, LoginCodex, LoginOpenrouter, StartLogin, Approve, Poll, Callback, BrowserTimeout, ghosts, At, ShapeInv
<1>2. \E s : Become(p, s) /\ HasShape(s) /\ s.pc \in {"idle", "poll", "exchange", "browser", "key"}
  <2>0. HasShape(proc[p])
    BY DEF ShapeInv
  <2>1. CASE LoginCodex(p)
    <3>1. PICK interval \in Intervals :
             Become(p, [pc |-> "poll", wake |-> now, deadline |-> now + POLL_TIMEOUT,
                        interval |-> interval, approved |-> FALSE])
      BY <2>1 DEF LoginCodex, StartLogin
    <3>2. HasShape([pc |-> "poll", wake |-> now, deadline |-> now + POLL_TIMEOUT,
                    interval |-> interval, approved |-> FALSE])
      BY DEF HasShape, Saving
    <3> QED
      BY <3>1, <3>2
  <2>2. CASE LoginOpenrouter(p)
    <3>1. HasShape([pc |-> "browser", deadline |-> now + BROWSER_TIMEOUT])
      BY DEF HasShape, Saving
    <3> QED
      BY <2>2, <3>1 DEF LoginOpenrouter, StartLogin
  <2>3. CASE Approve(p)
    <3> DEFINE s == [proc[p] EXCEPT !.approved = TRUE]
    <3>1. HasShape(s) /\ s.pc = "poll"
      BY <2>0, <2>3, ApprovedShape DEF Approve, At
    <3>2. Become(p, s)
      BY <2>3 DEF Approve
    <3> QED
      BY <3>1, <3>2
  <2>4. CASE Poll(p)
    <3> DEFINE s == [proc[p] EXCEPT !.wake = now + proc[p].interval]
           approved == [pc |-> "exchange"]
    <3>1. HasShape(s) /\ s.pc = "poll"
      BY <2>0, <2>4 DEF Poll, HasShape, At, Saving
    <3>2. HasShape(approved) /\ approved.pc = "exchange" /\ HasShape(Idle) /\ Idle.pc = "idle"
      BY DEF HasShape, Idle, Saving
    <3>3. Become(p, s) \/ Become(p, approved) \/ Become(p, Idle)
      BY <2>4 DEF Poll, PollAgain, Quit
    <3> HIDE DEF s, approved
    <3> QED
      BY <3>1, <3>2, <3>3
  <2>5. CASE BrowserTimeout(p)
    <3>1. HasShape(Idle) /\ Idle.pc = "idle"
      BY DEF HasShape, Idle, Saving
    <3> QED
      BY <2>5, <3>1 DEF BrowserTimeout, Quit
  <2>6. CASE Callback(p)
    <3> DEFINE key == [pc |-> "key"]
    <3>1. HasShape(key) /\ key.pc = "key" /\ HasShape(Idle) /\ Idle.pc = "idle"
      BY DEF HasShape, Idle, Saving
    <3>2. Become(p, key) \/ Become(p, Idle)
      BY <2>6 DEF Callback, Quit
    <3> HIDE DEF key
    <3> QED
      BY <3>1, <3>2
  <2> QED
    BY <2>1, <2>2, <2>3, <2>4, <2>5, <2>6 DEF WaitStep
<1>3. ~Writing(p)
  BY <1>1 DEF Writing
<1>4. PICK s : Become(p, s) /\ HasShape(s) /\ s.pc \in {"idle", "poll", "exchange", "browser", "key"}
  BY <1>2
<1>5. ShapeInv' /\ Quiet(p) /\ proc'[p] = s
  BY <1>1, <1>3, <1>4, QuietBecomes
<1> QED
  BY <1>1, <1>4, <1>5 DEF Saving

\* A login stores what the server gave it, in a store it has just loaded.
\* A login as the server's answer makes it.
IsLogin(c) ==
    /\ c = [refresh |-> c.refresh, expires_at |-> c.expires_at]
    /\ \E lifetime \in Lifetimes : c.expires_at = now + lifetime

LoginSaves(p, provider, credential) ==
    /\ Parses(OnDisk)
    /\ proc'[p] = [pc |-> "open", provider |-> provider, stale |-> FALSE,
                   body |-> [OnDisk EXCEPT ![provider] = credential]]

LEMMA SetShape ==
    ASSUME ShapeInv, NEW p \in Procs, NEW provider \in Providers, NEW credential,
           Parses(OnDisk), LoadAndSet(p, provider, credential),
           UNCHANGED <<disk, names, raced, overlap>>, given' \in Nat, ~Writing(p)
    PROVE  ShapeInv' /\ Quiet(p) /\ LoginSaves(p, provider, credential)
<1> DEFINE s == [pc |-> "open", provider |-> provider, stale |-> FALSE,
                 body |-> [OnDisk EXCEPT ![provider] = credential]]
<1>1. HasShape(s) /\ s.pc \notin {"write", "rename"}
  BY DEF HasShape, Saving
<1>2. Become(p, s)
  BY DEF LoadAndSet
<1> HIDE DEF s
<1>3. ShapeInv' /\ Quiet(p) /\ proc'[p] = s
  BY <1>1, <1>2, QuietBecomes
<1> QED
  BY <1>3 DEF LoginSaves, s

LEMMA ExchangeShape ==
    ASSUME ShapeInv, NEW p \in Procs, Exchange(p)
    PROVE  /\ ShapeInv' /\ Quiet(p) /\ At(p, "exchange") /\ lost' = lost
           /\ \/ /\ given' = given + 1 /\ valid' = valid \union {given + 1}
                 /\ \E c : c.refresh = given + 1 /\ IsLogin(c) /\ LoginSaves(p, "codex", c)
              \/ proc'[p] = Idle /\ UNCHANGED <<valid, given>>
<1>1. UNCHANGED <<disk, names, raced, overlap>> /\ lost' = lost /\ At(p, "exchange") /\ ~Writing(p)
  BY DEF Exchange, ghosts, At, Writing
<1>2. CASE /\ Parses(OnDisk) /\ Grant({})
           /\ \E lifetime \in Lifetimes :
                 LoadAndSet(p, "codex", [refresh |-> NewToken, expires_at |-> now + lifetime])
  <2>1. given' = given + 1 /\ valid' = valid \union {given + 1} /\ given' \in Nat
    BY <1>2 DEF Grant, NewToken, ShapeInv
  <2>2. PICK lifetime \in Lifetimes :
           LoadAndSet(p, "codex", [refresh |-> given + 1, expires_at |-> now + lifetime])
    BY <1>2 DEF NewToken
  <2> DEFINE c == [refresh |-> given + 1, expires_at |-> now + lifetime]
  <2>3. c.refresh = given + 1 /\ IsLogin(c) /\ "codex" \in Providers
    BY DEF Providers, IsLogin
  <2> HIDE DEF c
  <2>4. ShapeInv' /\ Quiet(p) /\ LoginSaves(p, "codex", c)
    BY <1>1, <1>2, <2>1, <2>2, <2>3, SetShape DEF c
  <2> QED
    BY <1>1, <2>1, <2>3, <2>4
<1>3. CASE Quit(p) /\ UNCHANGED <<valid, given>>
  BY <1>1, <1>3, QuietQuits DEF ShapeInv
<1> QED
  BY <1>2, <1>3 DEF Exchange

LEMMA KeyExchangeShape ==
    ASSUME ShapeInv, NEW p \in Procs, KeyExchange(p)
    PROVE  /\ ShapeInv' /\ Quiet(p) /\ At(p, "key") /\ UNCHANGED <<valid, given, lost>>
           /\ LoginSaves(p, "openrouter", "key") \/ proc'[p] = Idle
<1>1. UNCHANGED <<disk, names, raced, overlap>> /\ UNCHANGED <<valid, given, lost>>
      /\ At(p, "key") /\ ~Writing(p) /\ given' \in Nat
  BY DEF KeyExchange, ghosts, At, Writing, ShapeInv
<1>2. CASE Parses(OnDisk) /\ LoadAndSet(p, "openrouter", "key")
  BY <1>1, <1>2, SetShape DEF Providers
<1>3. CASE Quit(p)
  BY <1>1, <1>3, QuietQuits
<1> QED
  BY <1>1, <1>2, <1>3 DEF KeyExchange

\* A refresh ends with a login to save, with one that is lost, or with nothing.
Refreshed(p, c) ==
    proc'[p] = [pc |-> "open", provider |-> "codex", stale |-> proc[p].stale,
                body |-> [proc[p].loaded EXCEPT !.codex = c]]

Granted(p) ==
    given' = given + 1 /\ valid' = (valid \ {proc[p].loaded.codex.refresh}) \union {given + 1}

LEMMA RefreshedShape ==
    ASSUME ShapeInv, NEW p \in Procs, At(p, "refresh"), NEW c, given' \in Nat,
           Become(p, [pc |-> "open", provider |-> "codex", stale |-> proc[p].stale,
                      body |-> [proc[p].loaded EXCEPT !.codex = c]]),
           UNCHANGED <<disk, names, raced, overlap>>
    PROVE  ShapeInv' /\ Quiet(p) /\ Refreshed(p, c)
<1> DEFINE s == [pc |-> "open", provider |-> "codex", stale |-> proc[p].stale,
                 body |-> [proc[p].loaded EXCEPT !.codex = c]]
<1>1. HasShape(proc[p]) /\ ~Writing(p)
  BY DEF ShapeInv, At, Writing
<1>2. HasShape(s) /\ s.pc \notin {"write", "rename"}
  BY <1>1 DEF HasShape, At, Saving, Providers
<1> HIDE DEF s
<1>3. ShapeInv' /\ Quiet(p) /\ proc'[p] = s
  BY <1>1, <1>2, QuietBecomes DEF s
<1> QED
  BY <1>3 DEF Refreshed, s

LEMMA RefreshShape ==
    ASSUME ShapeInv, NEW p \in Procs, Refresh(p)
    PROVE  /\ ShapeInv' /\ Quiet(p) /\ At(p, "refresh")
           /\ \/ /\ \E c :
                    /\ Refreshed(p, c) /\ IsLogin(c)
                    /\ \/ c.refresh = given + 1 /\ Granted(p)
                       \/ /\ c.refresh = proc[p].loaded.codex.refresh /\ c.refresh \in valid
                          /\ UNCHANGED <<valid, given>>
                 /\ lost' = lost
              \/ proc'[p] = Idle /\ Granted(p) /\ lost'
              \/ proc'[p] = Idle /\ UNCHANGED <<valid, given, lost>>
<1> DEFINE old == proc[p].loaded.codex.refresh
           login(new, lifetime) == [refresh |-> new, expires_at |-> now + lifetime]
           set(new, lifetime) ==
               Become(p, [pc |-> "open", provider |-> "codex", stale |-> proc[p].stale,
                          body |-> [proc[p].loaded EXCEPT !.codex = login(new, lifetime)]])
<1>1. UNCHANGED <<disk, names, raced, overlap>> /\ At(p, "refresh") /\ ~Writing(p)
  BY DEF Refresh, At, Writing
<1>2. Grant({old}) => Granted(p) /\ given' \in Nat
  BY DEF Grant, Granted, NewToken, ShapeInv
<1>3. CASE /\ old \in valid /\ lost' = lost
           /\ \E lifetime \in Lifetimes :
                   \/ Grant({old}) /\ set(given + 1, lifetime)
                   \/ UNCHANGED <<valid, given>> /\ set(old, lifetime)
  <2>1. PICK lifetime \in Lifetimes :
           \/ Grant({old}) /\ set(given + 1, lifetime)
           \/ UNCHANGED <<valid, given>> /\ set(old, lifetime)
    BY <1>3
  <2>2. CASE Grant({old}) /\ set(given + 1, lifetime)
    <3> DEFINE c == login(given + 1, lifetime)
    <3>1. c.refresh = given + 1 /\ IsLogin(c)
      BY DEF IsLogin
    <3>2. ShapeInv' /\ Quiet(p) /\ Refreshed(p, c)
      BY <1>1, <1>2, <2>2, RefreshedShape
    <3> HIDE DEF c
    <3> QED
      BY <1>1, <1>2, <1>3, <2>2, <3>1, <3>2
  <2>3. CASE UNCHANGED <<valid, given>> /\ set(old, lifetime)
    <3> DEFINE c == login(old, lifetime)
    <3>1. c.refresh = old /\ IsLogin(c)
      BY DEF IsLogin
    <3>2. ShapeInv' /\ Quiet(p) /\ Refreshed(p, c)
      BY <1>1, <2>3, RefreshedShape DEF ShapeInv
    <3> HIDE DEF c
    <3> QED
      BY <1>1, <1>3, <2>3, <3>1, <3>2
  <2> QED
    BY <2>1, <2>2, <2>3
<1>4. CASE old \in valid /\ Grant({old}) /\ lost' = TRUE /\ Quit(p)
  BY <1>1, <1>2, <1>4, QuietQuits
<1>5. CASE Quit(p) /\ UNCHANGED <<valid, given, lost>>
  BY <1>1, <1>5, QuietQuits DEF ShapeInv
<1> QED
  <2>1. \/ /\ old \in valid
           /\ \E lifetime \in Lifetimes :
                   \/ Grant({old}) /\ set(given + 1, lifetime)
                   \/ UNCHANGED <<valid, given>> /\ set(old, lifetime)
           /\ UNCHANGED lost
        \/ old \in valid /\ Grant({old}) /\ lost' = TRUE /\ Quit(p)
        \/ Quit(p) /\ UNCHANGED <<valid, given, lost>>
    BY Zenon DEF Refresh, Kept, NewToken
  <2> QED
    BY <1>3, <1>4, <1>5, <2>1

\* A crash leaves everything but the file the process was writing.
LEMMA CrashShape ==
    ASSUME ShapeInv, NEW p \in Procs, Crash(p)
    PROVE  /\ ShapeInv' /\ proc'[p] = Idle
           /\ \A q \in Procs \ {p} : proc'[q] = proc[q]
           /\ UNCHANGED <<names, valid, given, raced, overlap>>
           /\ lost' <=> lost \/ SavesLogin(p)
           /\ \/ disk' = disk
              \/ /\ Writing(p)
                 /\ \E x \in {Blank, Torn, disk[proc[p].fd]} : disk' = [disk EXCEPT ![proc[p].fd] = x]
<1>1. UNCHANGED <<names, valid, given, raced, overlap>> /\ Quit(p)
  BY DEF Crash
<1>2. lost' <=> lost \/ SavesLogin(p)
  BY Zenon DEF Crash, SavesLogin
<1>3. \/ disk' = disk
      \/ /\ Writing(p)
         /\ \E x \in {Blank, Torn, disk[proc[p].fd]} : disk' = [disk EXCEPT ![proc[p].fd] = x]
  <2>1. CASE Writing(p)
    <3>1. \E left \in {disk[proc[p].fd]} \union IF At(p, "write") THEN {Torn} ELSE {} :
             disk' = [disk EXCEPT ![proc[p].fd] = IF proc[p].fd \in HeldByOthers(p) \union {names.auth}
                                                  THEN left ELSE Blank]
      BY <2>1, Zenon DEF Crash, Writing, At
    <3> QED
      BY <2>1, <3>1
  <2>2. CASE ~Writing(p)
    BY <2>2 DEF Crash, Writing, At
  <2> QED
    BY <2>1, <2>2
<1>4. disk' = [i \in Inodes |-> disk'[i]] /\ names' = [auth |-> names'.auth, tmp |-> names'.tmp]
  BY <1>1, <1>3 DEF ShapeInv
<1> QED
  BY <1>1, <1>2, <1>3, <1>4, QuitShape DEF ShapeInv

-----------------------------------------------------------------------------
(* The file.                                                               *)

LEMMA QuietFile ==
    ASSUME FileInv, NEW p \in Procs, Quiet(p)
    PROVE  FileInv' /\ (Calm' => Calm) /\ OnDisk' = OnDisk
<1>1. UNCHANGED <<disk, names, raced, overlap>>
  BY DEF Quiet
<1>2. OnDisk' = OnDisk /\ (Calm' <=> Calm)
  BY <1>1 DEF OnDisk, Calm
<1>3. \A q \in Procs : Writing(q)' => Writing(q) /\ proc'[q] = proc[q]
  BY DEF Quiet, Writing
<1>4. IsStore(OnDisk) => IsStore(OnDisk)'
  BY <1>2 DEF IsStore
<1> QED
  BY <1>1, <1>2, <1>3, <1>4 DEF FileInv, At

\* Opening truncates a file that is not the store.
LEMMA OpenFile ==
    ASSUME ShapeInv, FileInv, NEW p \in Procs, OpenTmp(p)
    PROVE  FileInv' /\ (Calm' => Calm /\ OnDisk' = OnDisk)
<1>1. SUFFICES ASSUME Calm'
               PROVE  FileInv' /\ Calm /\ OnDisk' = OnDisk
  BY DEF FileInv
<1>2. Calm /\ Held = {}
  BY <1>1 DEF Calm, OpenTmp
<1>3. \A q \in Procs : ~Writing(q)
  BY <1>2 DEF Held, Writing
<1>4. /\ names.auth \in Inodes \union {None} /\ names.tmp \in Inodes \union {None}
      /\ names.auth # None => names.auth # names.tmp
      /\ IsStore(OnDisk)
  BY <1>2 DEF FileInv
<1>5. /\ names'.auth = names.auth /\ names'.tmp \in Inodes /\ names'.tmp # None
      /\ names'.tmp # names.auth
  <2>1. names' = [auth |-> names.auth, tmp |-> IF names.tmp = None THEN Lowest(Free) ELSE names.tmp]
    BY OpenShape
  <2>2. CASE names.tmp = None
    BY <1>2, <2>1, <2>2, FreeInode
  <2>3. CASE names.tmp # None
    BY <1>4, <2>1, <2>3
  <2> QED
    BY <2>2, <2>3
<1>6. disk' = [disk EXCEPT ![names'.tmp] = Blank]
  BY OpenShape
<1>7. disk'[names'.tmp] = Blank /\ \A i \in Inodes : i # names'.tmp => disk'[i] = disk[i]
  BY <1>5, <1>6 DEF ShapeInv
<1>8. OnDisk' = OnDisk
  BY <1>4, <1>5, <1>7 DEF OnDisk
<1>9. /\ \A q \in Procs \ {p} : ~Writing(q)'
      /\ At(p, "write")' /\ proc'[p].fd = names'.tmp
  <2>1. /\ \A q \in Procs \ {p} : proc'[q] = proc[q]
        /\ proc'[p] = [pc |-> "write", fd |-> names'.tmp, provider |-> proc[p].provider,
                       stale |-> proc[p].stale, body |-> proc[p].body]
    BY OpenShape
  <2> QED
    BY <1>3, <2>1 DEF Writing, At
<1>10. IsStore(OnDisk)'
  BY <1>4, <1>8 DEF IsStore
<1> QED
  BY <1>2, <1>4, <1>5, <1>7, <1>8, <1>9, <1>10 DEF FileInv

\* Nobody else writes to the file meanwhile, so it holds the body or nothing.
LEMMA WriteFile ==
    ASSUME ShapeInv, FileInv, NEW p \in Procs, WriteTmp(p)
    PROVE  FileInv' /\ (Calm' => Calm /\ OnDisk' = OnDisk)
<1>1. SUFFICES ASSUME Calm'
               PROVE  FileInv' /\ Calm /\ OnDisk' = OnDisk
  BY DEF FileInv
<1>2. UNCHANGED <<names, raced, overlap>> /\ At(p, "write")
  BY DEF WriteTmp, ghosts
<1>3. Calm /\ Writing(p)
  BY <1>1, <1>2 DEF Calm, Writing, At
<1>4. /\ names.auth \in Inodes \union {None} /\ names.tmp \in Inodes \union {None}
      /\ names.auth # None => names.auth # names.tmp
      /\ IsStore(OnDisk)
      /\ names.tmp # None /\ proc[p].fd = names.tmp /\ disk[names.tmp] = Blank
      /\ \A q \in Procs : Writing(q) => q = p
  BY <1>2, <1>3 DEF FileInv
<1>5. disk' = [disk EXCEPT ![names.tmp] = proc[p].body]
  BY <1>4 DEF WriteTmp
<1>6. disk'[names.tmp] = proc[p].body /\ \A i \in Inodes : i # names.tmp => disk'[i] = disk[i]
  BY <1>4, <1>5 DEF ShapeInv
<1>7. OnDisk' = OnDisk
  BY <1>2, <1>4, <1>6 DEF OnDisk
<1>8. /\ \A q \in Procs \ {p} : ~Writing(q)'
      /\ ~At(p, "write")' /\ proc'[p].fd = names.tmp /\ proc'[p].body = proc[p].body
  <2>1. /\ \A q \in Procs \ {p} : proc'[q] = proc[q]
        /\ proc'[p] = [pc |-> "rename", fd |-> proc[p].fd, provider |-> proc[p].provider,
                       stale |-> proc[p].stale, body |-> proc[p].body]
    BY WriteShape
  <2> QED
    BY <1>4, <2>1 DEF Writing, At
<1>9. IsStore(OnDisk)'
  BY <1>4, <1>7 DEF IsStore
<1> QED
  BY <1>2, <1>3, <1>4, <1>6, <1>7, <1>8, <1>9 DEF FileInv

\* The store becomes the body of a process that has loaded what it replaces.
LEMMA RenameFile ==
    ASSUME ShapeInv, FileInv, LoadInv, NEW p \in Procs, RenameTmp(p)
    PROVE  /\ FileInv'
           /\ Calm' => /\ Calm /\ names.tmp # None /\ At(p, "rename") /\ ~proc[p].stale
                       /\ OnDisk' = proc[p].body
<1>1. SUFFICES ASSUME Calm'
               PROVE  FileInv' /\ Calm /\ names.tmp # None /\ At(p, "rename") /\ ~proc[p].stale
                      /\ OnDisk' = proc[p].body
  BY DEF FileInv
<1>2. At(p, "rename") /\ Writing(p) /\ ~At(p, "write") /\ proc[p].pc \in Saving
  BY DEF RenameTmp, At, Writing, Saving
<1>3. Calm
  <2>1. overlap' = overlap
    BY DEF RenameTmp
  <2>2. CASE raced' = (raced \/ proc[p].stale)
    BY <1>1, <2>1, <2>2, Zenon DEF Calm
  <2>3. CASE raced' = raced
    BY <1>1, <2>1, <2>3 DEF Calm
  <2> QED
    BY <2>2, <2>3 DEF RenameTmp
<1>4. /\ names.tmp # None /\ names.tmp \in Inodes /\ disk[names.tmp] = proc[p].body
      /\ \A q \in Procs : Writing(q) => q = p
  BY <1>2, <1>3 DEF FileInv
<1>5. ~proc[p].stale
  BY <1>1, <1>4 DEF Calm, RenameTmp
<1>6. IsStore(proc[p].body)
  BY <1>2, <1>3, <1>5 DEF LoadInv, Loads
<1>7. names'.auth = names.tmp /\ names'.tmp = None /\ disk'[names.tmp] = disk[names.tmp]
  BY <1>4, RenameShape
<1>8. OnDisk' = proc[p].body
  BY <1>4, <1>7 DEF OnDisk
<1>9. \A q \in Procs : ~Writing(q)'
  BY <1>4, RenameShape DEF Writing, Idle
<1>10. IsStore(OnDisk)'
  BY <1>6, <1>8 DEF IsStore
<1> QED
  BY <1>2, <1>3, <1>4, <1>5, <1>7, <1>8, <1>9, <1>10 DEF FileInv

LEMMA CrashFile ==
    ASSUME ShapeInv, FileInv, NEW p \in Procs, Crash(p)
    PROVE  FileInv' /\ (Calm' => Calm /\ OnDisk' = OnDisk)
<1>1. SUFFICES ASSUME Calm'
               PROVE  FileInv' /\ Calm /\ OnDisk' = OnDisk
  BY DEF FileInv
<1>2. Calm /\ names' = names
  BY <1>1, CrashShape DEF Calm
<1>3. /\ names.auth \in Inodes \union {None} /\ names.tmp \in Inodes \union {None}
      /\ names.auth # None => names.auth # names.tmp
      /\ IsStore(OnDisk)
  BY <1>2 DEF FileInv
<1>4. ~Writing(p)' /\ \A q \in Procs \ {p} : proc'[q] = proc[q]
  BY CrashShape DEF Writing, Idle
<1>5. CASE disk' = disk
  <2>1. OnDisk' = OnDisk
    BY <1>2, <1>5 DEF OnDisk
  <2>2. IsStore(OnDisk)'
    BY <1>3, <2>1 DEF IsStore
  <2>3. \A q \in Procs : Writing(q)' => Writing(q) /\ proc'[q] = proc[q] /\ (At(q, "write")' <=> At(q, "write"))
    BY <1>4 DEF Writing, At
  <2> QED
    BY <1>2, <1>3, <1>5, <2>1, <2>2, <2>3 DEF FileInv
<1>6. CASE Writing(p) /\ \E x : disk' = [disk EXCEPT ![proc[p].fd] = x]
  <2>1. names.tmp # None /\ proc[p].fd = names.tmp /\ \A q \in Procs : Writing(q) => q = p
    BY <1>2, <1>6 DEF FileInv
  <2>2. \A i \in Inodes : i # names.tmp => disk'[i] = disk[i]
    BY <1>6, <2>1 DEF ShapeInv
  <2>3. OnDisk' = OnDisk
    BY <1>2, <1>3, <2>1, <2>2 DEF OnDisk
  <2>4. IsStore(OnDisk)'
    BY <1>3, <2>3 DEF IsStore
  <2>5. \A q \in Procs : ~Writing(q)'
    BY <1>4, <2>1 DEF Writing
  <2> QED
    BY <1>2, <1>3, <2>3, <2>4, <2>5 DEF FileInv
<1> QED
  BY <1>5, <1>6, CrashShape

-----------------------------------------------------------------------------
(* What a process has loaded.                                              *)

\* Setting one provider gives a store with the other one as it was.
LEMMA SetOne ==
    ASSUME NEW s, IsStore(s), NEW provider \in Providers, NEW c
    PROVE  /\ IsStore([s EXCEPT ![provider] = c])
           /\ [s EXCEPT ![provider] = c][provider] = c
           /\ provider = "codex" => [s EXCEPT ![provider] = c].codex = c
           /\ provider = "openrouter" => [s EXCEPT ![provider] = c].codex = s.codex
<1>1. s = [codex |-> s.codex, openrouter |-> s.openrouter]
  BY DEF IsStore
<1>2. CASE provider = "codex"
  <2>1. [s EXCEPT ![provider] = c] = [codex |-> c, openrouter |-> s.openrouter]
    <3> DEFINE a == s.codex  b == s.openrouter
    <3> HIDE DEF a, b
    <3>1. [[codex |-> a, openrouter |-> b] EXCEPT !.codex = c] = [codex |-> c, openrouter |-> b]
      OBVIOUS
    <3> QED
      BY <1>1, <1>2, <3>1 DEF a, b
  <2> QED
    BY <1>2, <2>1 DEF IsStore
<1>3. CASE provider = "openrouter"
  <2>1. [s EXCEPT ![provider] = c] = [codex |-> s.codex, openrouter |-> c]
    <3> DEFINE a == s.codex  b == s.openrouter
    <3> HIDE DEF a, b
    <3>1. [[codex |-> a, openrouter |-> b] EXCEPT !.openrouter = c] = [codex |-> a, openrouter |-> c]
      OBVIOUS
    <3> QED
      BY <1>1, <1>3, <3>1 DEF a, b
  <2> QED
    BY <1>3, <2>1 DEF IsStore
<1> QED
  BY <1>2, <1>3 DEF Providers

\* A step of p: those of Next, the waits of a login in one.
StepOf(p) ==
    \/ OpenTmp(p) \/ WriteTmp(p) \/ RenameTmp(p) \/ Crash(p)
    \/ Token(p) \/ WaitStep(p) \/ Exchange(p) \/ KeyExchange(p) \/ Refresh(p)

LEMMA FileStep ==
    ASSUME ShapeInv, FileInv, LoadInv, NEW p \in Procs, StepOf(p)
    PROVE  ShapeInv' /\ FileInv' /\ (Calm' => Calm)
<1>1. CASE OpenTmp(p)
  BY <1>1, OpenShape, OpenFile
<1>2. CASE WriteTmp(p)
  BY <1>2, WriteShape, WriteFile
<1>3. CASE RenameTmp(p)
  <2>1. FileInv' /\ (Calm' => Calm)
    BY <1>3, RenameFile
  <2>2. CASE names.tmp # None
    BY <1>3, <2>1, <2>2, RenameShape
  <2>3. CASE names.tmp = None
    <3>1. Quit(p) /\ UNCHANGED <<names, disk, given>>
      BY <1>3, <2>3 DEF RenameTmp
    <3> QED
      BY <2>1, <3>1, QuitShape DEF ShapeInv
  <2> QED
    BY <2>2, <2>3
<1>4. CASE Crash(p)
  BY <1>4, CrashShape, CrashFile
<1>5. CASE Token(p)
  BY <1>5, TokenShape, QuietFile
<1>6. CASE WaitStep(p)
  BY <1>6, WaitShape, QuietFile
<1>7. CASE Exchange(p)
  BY <1>7, ExchangeShape, QuietFile
<1>8. CASE KeyExchange(p)
  BY <1>8, KeyExchangeShape, QuietFile
<1>9. CASE Refresh(p)
  BY <1>9, RefreshShape, QuietFile
<1> QED
  BY <1>1, <1>2, <1>3, <1>4, <1>5, <1>6, <1>7, <1>8, <1>9 DEF StepOf

LEMMA LoadsFrame ==
    ASSUME NEW q \in Procs, Loads(q), OnDisk' = OnDisk, proc'[q] = proc[q]
    PROVE  Loads(q)'
BY DEF Loads, At, IsStore, Parses

\* A login step that saves has just loaded the store.
LEMMA LoginLoads ==
    ASSUME IsStore(OnDisk), OnDisk' = OnDisk, NEW p \in Procs, NEW provider \in Providers, NEW c,
           LoginSaves(p, provider, c)
    PROVE  Loads(p)'
<1>1. /\ proc'[p].pc = "open" /\ proc'[p].provider = provider
      /\ proc'[p].body = [OnDisk EXCEPT ![provider] = c] /\ Parses(OnDisk)
  BY DEF LoginSaves
<1>2. IsStore(proc'[p].body) /\ proc'[p].body[provider] = c
  BY <1>1, SetOne
<1>3. /\ Parses(OnDisk)' /\ IsStore(proc[p].body)' /\ ~At(p, "refresh")'
      /\ proc'[p].body = [OnDisk' EXCEPT ![proc'[p].provider] = proc'[p].body[proc'[p].provider]]
  BY <1>1, <1>2 DEF Parses, IsStore, At
<1> QED
  BY <1>3 DEF Loads

LEMMA LoadStep ==
    ASSUME ShapeInv, FileInv, LoadInv, NEW p \in Procs, StepOf(p)
    PROVE  LoadInv'
<1>1. SUFFICES ASSUME Calm', NEW q \in Procs
               PROVE  Loads(q)'
  BY DEF LoadInv
<1>2. Calm /\ Loads(q) /\ Loads(p) /\ IsStore(OnDisk)
  BY <1>1, FileStep DEF LoadInv, FileInv
<1>3. CASE OpenTmp(p) \/ WriteTmp(p)
  <2>1. OnDisk' = OnDisk
    BY <1>1, <1>3, OpenFile, WriteFile
  <2>2. CASE q # p
    BY <1>2, <1>3, <2>1, <2>2, OpenShape, WriteShape, LoadsFrame
  <2>3. /\ proc[p].pc \in Saving /\ ~At(p, "refresh")'
        /\ proc'[p].provider = proc[p].provider /\ proc'[p].stale = proc[p].stale
        /\ proc'[p].body = proc[p].body
    <3>1. CASE OpenTmp(p)
      <4>1. /\ At(p, "open")
            /\ proc'[p] = [pc |-> "write", fd |-> names'.tmp, provider |-> proc[p].provider,
                           stale |-> proc[p].stale, body |-> proc[p].body]
        BY <3>1, OpenShape
      <4> QED
        BY <4>1 DEF At, Saving
    <3>2. CASE WriteTmp(p)
      <4>1. /\ At(p, "write")
            /\ proc'[p] = [pc |-> "rename", fd |-> proc[p].fd, provider |-> proc[p].provider,
                           stale |-> proc[p].stale, body |-> proc[p].body]
        BY <3>2, WriteShape
      <4> QED
        BY <4>1 DEF At, Saving
    <3> QED
      BY <1>3, <3>1, <3>2
  <2>4. Loads(p)'
    BY <1>2, <2>1, <2>3 DEF Loads, Parses, IsStore
  <2> QED
    BY <2>2, <2>4
<1>4. CASE RenameTmp(p)
  <2>1. names.tmp # None
    BY <1>1, <1>4, RenameFile
  <2>2. CASE q = p
    BY <1>4, <2>1, <2>2, RenameShape DEF Loads, At, Saving, Idle
  <2>3. CASE q # p
    <3>1. /\ proc'[q].pc = proc[q].pc
          /\ proc'[q].pc \in Saving \union {"refresh"} => proc'[q].stale
          /\ At(q, "refresh") => proc'[q].loaded = proc[q].loaded
      BY <1>4, <2>1, <2>3, RenameShape
    <3> QED
      BY <1>2, <3>1 DEF Loads, At, IsStore
  <2> QED
    BY <2>2, <2>3
<1>5. CASE Crash(p)
  <2>1. OnDisk' = OnDisk
    BY <1>1, <1>5, CrashFile
  <2>2. CASE q # p
    BY <1>2, <1>5, <2>1, <2>2, CrashShape, LoadsFrame
  <2>3. CASE q = p
    BY <1>5, <2>3, CrashShape DEF Loads, At, Saving, Idle
  <2> QED
    BY <2>2, <2>3
<1>6. CASE Token(p) \/ WaitStep(p) \/ Exchange(p) \/ KeyExchange(p) \/ Refresh(p)
  <2>1. Quiet(p) /\ OnDisk' = OnDisk
    BY <1>6, TokenShape, WaitShape, ExchangeShape, KeyExchangeShape, RefreshShape, QuietFile
  <2>2. SUFFICES Loads(p)'
    BY <1>2, <2>1, LoadsFrame DEF Quiet
  <2>3. proc'[p] = Idle => Loads(p)'
    BY DEF Loads, At, Saving, Idle
  <2>4. CASE Token(p)
    <3>1. proc'[p] = [pc |-> "refresh", loaded |-> OnDisk, stale |-> FALSE]
          /\ Parses(OnDisk) /\ OnDisk.codex # None
      BY <2>4, TokenShape DEF Token
    <3> QED
      BY <1>2, <2>1, <3>1 DEF Loads, At, Saving, Parses, IsStore
  <2>5. CASE WaitStep(p)
    BY <2>5, WaitShape DEF Loads, At
  <2>6. CASE Exchange(p)
    BY <1>2, <2>1, <2>3, <2>6, ExchangeShape, LoginLoads DEF Providers
  <2>7. CASE KeyExchange(p)
    BY <1>2, <2>1, <2>3, <2>7, KeyExchangeShape, LoginLoads DEF Providers
  <2>8. CASE Refresh(p)
    <3>1. CASE proc'[p] = Idle
      BY <2>3, <3>1
    <3>2. CASE \E c : Refreshed(p, c)
      <4>1. PICK c : Refreshed(p, c)
        BY <3>2
      <4>2. /\ ~At(p, "refresh")' /\ proc'[p].provider = "codex" /\ proc'[p].stale = proc[p].stale
            /\ proc'[p].body = [proc[p].loaded EXCEPT !["codex"] = c]
        BY <4>1 DEF Refreshed, At
      <4>3. CASE ~proc[p].stale
        <5>1. Parses(OnDisk) /\ proc[p].loaded = OnDisk
          BY <1>2, <2>8, <4>3, RefreshShape DEF Loads
        <5>2. IsStore(proc'[p].body) /\ proc'[p].body["codex"] = c
          BY <1>2, <4>2, <5>1, SetOne DEF Providers
        <5>3. /\ Parses(OnDisk)' /\ IsStore(proc[p].body)'
              /\ proc'[p].body = [OnDisk' EXCEPT ![proc'[p].provider] = proc'[p].body[proc'[p].provider]]
          BY <2>1, <4>2, <5>1, <5>2 DEF Parses, IsStore
        <5> QED
          BY <4>2, <5>3 DEF Loads
      <4>4. CASE proc[p].stale
        BY <4>2, <4>4 DEF Loads
      <4> QED
        BY <4>3, <4>4
    <3> QED
      BY <2>8, <3>1, <3>2, RefreshShape
  <2> QED
    BY <1>6, <2>4, <2>5, <2>6, <2>7, <2>8
<1> QED
  BY <1>3, <1>4, <1>5, <1>6 DEF StepOf

-----------------------------------------------------------------------------
(* The refresh tokens.                                                     *)

\* A step that leaves the tokens, the store and the logins being saved alone;
\* a process may give up what it has loaded, and a login may be lost.
LEMMA TokenFrame ==
    ASSUME TokenInv, Calm' => Calm /\ OnDisk' = OnDisk, UNCHANGED <<valid, given>>,
           \A q \in Procs : At(q, "refresh")' =>
               At(q, "refresh") /\ proc'[q].loaded = proc[q].loaded,
           \A q \in Procs : SavesLogin(q)' =>
               /\ SavesLogin(q) /\ proc'[q].body = proc[q].body
               /\ proc'[q].stale = proc[q].stale,
           ~lost' => ~lost /\ \A q \in Procs : SavesLogin(q) =>
               SavesLogin(q)' /\ proc'[q].body = proc[q].body
    PROVE  TokenInv'
<1>1. SUFFICES ASSUME Calm, OnDisk' = OnDisk
               PROVE  TokenInv'
  BY DEF TokenInv
<1>2. ASSUME NEW q \in Procs, proc'[q].body = proc[q].body, Unused(q)
      PROVE  Unused(q)'
  BY <1>2 DEF Unused
<1>3. Parses(OnDisk)' <=> Parses(OnDisk)
  BY <1>1 DEF Parses
<1>4. Parses(OnDisk) /\ OnDisk.codex # None => OnDisk.codex.refresh \in 0 .. given
  BY <1>1 DEF TokenInv
<1>5. \A q \in Procs : GivenOut(q)'
  BY <1>1 DEF TokenInv, GivenOut
<1>6. \A q \in Procs : Saves(q)'
  BY <1>1, <1>2 DEF TokenInv, Saves
<1>7. ~lost' => (StoredIsGood \/ \E q \in Procs : SavesLogin(q) /\ Unused(q))'
  <2> SUFFICES ASSUME ~lost'
               PROVE  (StoredIsGood \/ \E q \in Procs : SavesLogin(q) /\ Unused(q))'
    OBVIOUS
  <2>1. CASE StoredIsGood
    BY <1>1, <1>3, <2>1 DEF StoredIsGood
  <2>2. CASE \E q \in Procs : SavesLogin(q) /\ Unused(q)
    BY <1>2, <2>2
  <2> QED
    BY <1>1, <2>1, <2>2 DEF TokenInv
<1> QED
  BY <1>1, <1>3, <1>4, <1>5, <1>6, <1>7 DEF TokenInv

\* The server gives a new token to p and takes an old one, if any, from use;
\* p goes on to save the new one, or it is lost.
LEMMA TokenGrant ==
    ASSUME ShapeInv, TokenInv, Calm' => Calm /\ OnDisk' = OnDisk, NEW p \in Procs, NEW used,
           given' = given + 1, valid' = (valid \ used) \union {given + 1},
           \A t \in used : At(p, "refresh") /\ t = proc[p].loaded.codex.refresh,
           \A q \in Procs \ {p} : proc'[q] = proc[q],
           ~SavesLogin(p), ~At(p, "refresh")',
           \/ SavesLogin(p)' /\ proc'[p].body.codex.refresh = given + 1
           \/ ~SavesLogin(p)' /\ lost'
    PROVE  TokenInv'
<1>1. SUFFICES ASSUME Calm, OnDisk' = OnDisk
               PROVE  TokenInv'
  BY DEF TokenInv
<1>2. given \in Nat /\ 0 .. given \subseteq 0 .. given' /\ given + 1 \in 0 .. given'
      /\ given + 1 \notin 0 .. given
  BY DEF ShapeInv
<1>3. Parses(OnDisk)' <=> Parses(OnDisk)
  BY <1>1 DEF Parses
<1>4. Parses(OnDisk)' /\ OnDisk'.codex # None => OnDisk'.codex.refresh \in 0 .. given'
  BY <1>1, <1>2, <1>3 DEF TokenInv
<1>5. \A q \in Procs : At(q, "refresh")' =>
         /\ q # p /\ At(q, "refresh") /\ proc'[q].loaded = proc[q].loaded
         /\ proc[q].loaded.codex.refresh \in 0 .. given
  BY <1>1 DEF TokenInv, GivenOut, At
<1>6. SavesLogin(p)' => Unused(p)'
  BY <1>2, <1>5 DEF Unused
<1>7. ASSUME NEW q \in Procs \ {p}, Unused(q)
      PROVE  Unused(q)'
  <2>1. proc[q].body.codex.refresh \in valid /\ proc[q].body.codex.refresh \notin used
    BY <1>7 DEF Unused
  <2> QED
    BY <1>5, <1>7, <2>1 DEF Unused
<1>8. ASSUME NEW q \in Procs
      PROVE  GivenOut(q)' /\ Saves(q)'
  <2>1. CASE q = p
    BY <1>2, <1>6, <2>1 DEF GivenOut, Saves
  <2>2. CASE q # p
    <3>1. proc'[q] = proc[q] /\ GivenOut(q) /\ Saves(q)
      BY <1>1, <2>2 DEF TokenInv
    <3>2. GivenOut(q)'
      BY <1>2, <3>1 DEF GivenOut, SavesLogin, At
    <3>3. Saves(q)'
      BY <1>1, <1>7, <2>2, <3>1 DEF Saves, SavesLogin
    <3> QED
      BY <3>2, <3>3
  <2> QED
    BY <2>1, <2>2
<1>9. ~lost' => \E q \in Procs : SavesLogin(q)' /\ Unused(q)'
  BY <1>6
<1> QED
  BY <1>4, <1>8, <1>9 DEF TokenInv

\* A process that loads the store holds the stored token, which is not new.
LEMMA TokenLoad ==
    ASSUME FileInv, TokenInv, NEW p \in Procs, ShapeInv, Token(p)
    PROVE  TokenInv'
<1>1. /\ OnDisk' = OnDisk /\ (Calm' => Calm) /\ UNCHANGED <<valid, given, lost>>
      /\ \A q \in Procs \ {p} : proc'[q] = proc[q]
      /\ proc'[p] = [pc |-> "refresh", loaded |-> OnDisk, stale |-> FALSE]
      /\ ~SavesLogin(p) /\ Parses(OnDisk) /\ OnDisk.codex # None
  BY TokenShape, QuietFile DEF Token, Quiet, ghosts, At, SavesLogin, Saving
<1>2. SUFFICES ASSUME Calm
               PROVE  TokenInv'
  BY <1>1 DEF TokenInv
<1>3. ~SavesLogin(p)' /\ proc'[p].loaded = OnDisk
  BY <1>1 DEF SavesLogin, Saving
<1>4. OnDisk.codex.refresh \in 0 .. given
  BY <1>1, <1>2 DEF TokenInv
<1>5. ASSUME NEW q \in Procs, SavesLogin(q), Unused(q), q # p
      PROVE  Unused(q)' \/ proc[q].body.codex.refresh = OnDisk.codex.refresh
  BY <1>1, <1>3, <1>5 DEF Unused, At
<1>6. ASSUME NEW q \in Procs
      PROVE  GivenOut(q)' /\ Saves(q)'
  <2>1. CASE q = p
    BY <1>1, <1>3, <1>4, <2>1 DEF GivenOut, Saves
  <2>2. CASE q # p
    <3>1. proc'[q] = proc[q] /\ GivenOut(q) /\ Saves(q)
      BY <1>1, <1>2, <2>2 DEF TokenInv
    <3>2. GivenOut(q)'
      BY <1>1, <3>1 DEF GivenOut, SavesLogin, At
    <3>3. Saves(q)'
      BY <1>1, <1>5, <2>2, <3>1 DEF Saves, SavesLogin
    <3> QED
      BY <3>2, <3>3
  <2> QED
    BY <2>1, <2>2
<1>7. ~lost' => (StoredIsGood \/ \E q \in Procs : SavesLogin(q) /\ Unused(q))'
  <2> SUFFICES ASSUME ~lost'
               PROVE  (StoredIsGood \/ \E q \in Procs : SavesLogin(q) /\ Unused(q))'
    OBVIOUS
  <2>1. CASE StoredIsGood
    BY <1>1, <2>1 DEF StoredIsGood, Parses
  <2>2. CASE \E q \in Procs : SavesLogin(q) /\ Unused(q)
    <3>1. PICK q \in Procs : SavesLogin(q) /\ Unused(q)
      BY <2>2
    <3>2. q # p /\ SavesLogin(q)'
      BY <1>1, <3>1 DEF SavesLogin
    <3>3. CASE Unused(q)'
      BY <3>2, <3>3
    <3>4. CASE proc[q].body.codex.refresh = OnDisk.codex.refresh
      <4>1. OnDisk'.codex.refresh \in valid'
        BY <1>1, <3>1, <3>4 DEF Unused
      <4> QED
        BY <4>1 DEF StoredIsGood
    <3> QED
      BY <1>5, <3>1, <3>2, <3>3, <3>4
  <2> QED
    BY <1>1, <1>2, <2>1, <2>2 DEF TokenInv
<1> QED
  BY <1>1, <1>4, <1>6, <1>7 DEF TokenInv, Parses

\* The server takes the old token and gives no new one: p saves the old one.
LEMMA TokenKept ==
    ASSUME LoadInv, TokenInv, Calm' => Calm /\ OnDisk' = OnDisk, NEW p \in Procs, At(p, "refresh"),
           SavesLogin(p)', ~At(p, "refresh")', proc'[p].stale = proc[p].stale,
           proc'[p].body.codex.refresh = proc[p].loaded.codex.refresh,
           UNCHANGED <<valid, given, lost>>, \A q \in Procs \ {p} : proc'[q] = proc[q]
    PROVE  TokenInv'
<1>1. SUFFICES ASSUME Calm, OnDisk' = OnDisk
               PROVE  TokenInv'
  BY DEF TokenInv
<1>2. \A q \in Procs : At(q, "refresh")' => q # p /\ At(q, "refresh") /\ proc'[q].loaded = proc[q].loaded
  BY DEF At
<1>3. ASSUME NEW q \in Procs, q # p, Unused(q)
      PROVE  Unused(q)'
  BY <1>2, <1>3 DEF Unused
<1>4. ASSUME NEW q \in Procs
      PROVE  GivenOut(q)' /\ Saves(q)'
  <2>1. CASE q = p
    <3>1. GivenOut(p)'
      BY <1>1 DEF TokenInv, GivenOut
    <3>2. ~proc[p].stale => proc[p].loaded = OnDisk /\ OnDisk.codex # None
      BY <1>1 DEF LoadInv, Loads
    <3>3. Saves(p)'
      BY <1>1, <3>2 DEF Saves
    <3> QED
      BY <2>1, <3>1, <3>3
  <2>2. CASE q # p
    <3>1. proc'[q] = proc[q] /\ GivenOut(q) /\ Saves(q)
      BY <1>1, <2>2 DEF TokenInv
    <3>2. GivenOut(q)'
      BY <3>1 DEF GivenOut, SavesLogin, At
    <3>3. Saves(q)'
      BY <1>1, <1>3, <2>2, <3>1 DEF Saves, SavesLogin
    <3> QED
      BY <3>2, <3>3
  <2> QED
    BY <2>1, <2>2
<1>5. Parses(OnDisk)' <=> Parses(OnDisk)
  BY <1>1 DEF Parses
<1>6. ~lost' => (StoredIsGood \/ \E q \in Procs : SavesLogin(q) /\ Unused(q))'
  <2> SUFFICES ASSUME ~lost'
               PROVE  (StoredIsGood \/ \E q \in Procs : SavesLogin(q) /\ Unused(q))'
    OBVIOUS
  <2>1. CASE StoredIsGood
    BY <1>1, <1>5, <2>1 DEF StoredIsGood
  <2>2. CASE \E q \in Procs : SavesLogin(q) /\ Unused(q)
    <3>1. PICK q \in Procs : SavesLogin(q) /\ Unused(q)
      BY <2>2
    <3>2. q # p /\ SavesLogin(q)'
      BY <3>1 DEF SavesLogin, Saving, At
    <3> QED
      BY <1>3, <3>1, <3>2
  <2> QED
    BY <1>1, <2>1, <2>2 DEF TokenInv
<1> QED
  BY <1>1, <1>4, <1>5, <1>6 DEF TokenInv

\* The stored login becomes the one p saved, or stays if p saved another.
LEMMA TokenRename ==
    ASSUME ShapeInv, FileInv, LoadInv, TokenInv, NEW p \in Procs, RenameTmp(p)
    PROVE  TokenInv'
<1>1. SUFFICES ASSUME Calm'
               PROVE  TokenInv'
  BY DEF TokenInv
<1>2. /\ Calm /\ names.tmp # None /\ At(p, "rename") /\ ~proc[p].stale
      /\ OnDisk' = proc[p].body /\ UNCHANGED <<valid, given, lost>>
  BY <1>1, RenameFile DEF RenameTmp
<1>3. proc[p].pc \in Saving /\ proc[p].provider \in Providers
  BY <1>2 DEF At, Saving, ShapeInv, HasShape
<1>4. /\ Parses(OnDisk) /\ IsStore(OnDisk)
      /\ proc[p].body = [OnDisk EXCEPT ![proc[p].provider] = proc[p].body[proc[p].provider]]
  BY <1>2, <1>3 DEF LoadInv, Loads, FileInv
<1>5. ~SavesLogin(p) => OnDisk'.codex = OnDisk.codex
  <2>1. ~SavesLogin(p) => proc[p].provider = "openrouter"
    BY <1>3 DEF SavesLogin, Providers
  <2> DEFINE key == proc[p].body[proc[p].provider]
  <2>2. proc[p].provider = "openrouter" =>
           [OnDisk EXCEPT ![proc[p].provider] = key].codex = OnDisk.codex
    <3> HIDE DEF key
    <3> QED
      BY <1>3, <1>4, SetOne
  <2> QED
    BY <1>2, <1>4, <2>1, <2>2
<1>6. ~SavesLogin(p)' /\ ~At(p, "refresh")'
  BY <1>2, RenameShape DEF SavesLogin, Saving, At, Idle
<1>7. \A q \in Procs : At(q, "refresh")' => At(q, "refresh") /\ proc'[q].loaded = proc[q].loaded
  BY <1>2, <1>6, RenameShape DEF At
<1>8. ASSUME NEW q \in Procs, q # p
      PROVE  /\ SavesLogin(q)' <=> SavesLogin(q)
             /\ SavesLogin(q) => proc'[q].body = proc[q].body /\ proc'[q].stale
  BY <1>2, <1>8, RenameShape DEF SavesLogin
<1>9. ASSUME NEW q \in Procs, q # p, SavesLogin(q), Unused(q)
      PROVE  Unused(q)'
  BY <1>2, <1>7, <1>8, <1>9 DEF Unused
<1>10. OnDisk'.codex # None => OnDisk'.codex.refresh \in 0 .. given'
  BY <1>2, <1>4, <1>5 DEF TokenInv, GivenOut
<1>11. \A q \in Procs : GivenOut(q)' /\ Saves(q)'
  BY <1>2, <1>6, <1>7, <1>8 DEF TokenInv, GivenOut, Saves
<1>12. ~lost' => (StoredIsGood \/ \E q \in Procs : SavesLogin(q) /\ Unused(q))'
  <2> SUFFICES ASSUME ~lost'
               PROVE  (StoredIsGood \/ \E q \in Procs : SavesLogin(q) /\ Unused(q))'
    OBVIOUS
  <2>1. StoredIsGood \/ \E q \in Procs : SavesLogin(q) /\ Unused(q)
    BY <1>2 DEF TokenInv
  <2>2. CASE \E q \in Procs : q # p /\ SavesLogin(q) /\ Unused(q)
    BY <1>8, <1>9, <2>2
  <2>3. CASE SavesLogin(p) /\ Unused(p)
    BY <1>2, <2>3 DEF Unused, StoredIsGood
  <2>4. CASE StoredIsGood /\ ~(SavesLogin(p) /\ Unused(p))
    <3>1. SavesLogin(p) => OnDisk.codex # None /\ OnDisk'.codex.refresh = OnDisk.codex.refresh
      BY <1>2, <2>4 DEF TokenInv, Saves
    <3>2. OnDisk.codex = None \/ OnDisk.codex.refresh \in valid
      BY <1>4, <2>4 DEF StoredIsGood
    <3> QED
      BY <1>2, <1>5, <3>1, <3>2 DEF StoredIsGood
  <2> QED
    BY <2>1, <2>2, <2>3, <2>4
<1> QED
  BY <1>10, <1>11, <1>12 DEF TokenInv

LEMMA TokenStep ==
    ASSUME ShapeInv, FileInv, LoadInv, TokenInv, NEW p \in Procs, StepOf(p)
    PROVE  TokenInv'
<1>1. CASE OpenTmp(p) \/ WriteTmp(p)
  <2>1. /\ Calm' => Calm /\ OnDisk' = OnDisk
        /\ UNCHANGED <<valid, given, lost>>
    BY <1>1, OpenFile, WriteFile DEF OpenTmp, WriteTmp, ghosts
  <2>2. /\ \A q \in Procs \ {p} : proc'[q] = proc[q]
        /\ proc[p].pc \in Saving /\ proc'[p].pc \in Saving
        /\ proc'[p].provider = proc[p].provider /\ proc'[p].stale = proc[p].stale
        /\ proc'[p].body = proc[p].body
    <3>1. CASE OpenTmp(p)
      <4>1. /\ At(p, "open") /\ \A q \in Procs \ {p} : proc'[q] = proc[q]
            /\ proc'[p] = [pc |-> "write", fd |-> names'.tmp, provider |-> proc[p].provider,
                           stale |-> proc[p].stale, body |-> proc[p].body]
        BY <3>1, OpenShape
      <4> QED
        BY <4>1 DEF At, Saving
    <3>2. CASE WriteTmp(p)
      <4>1. /\ At(p, "write") /\ \A q \in Procs \ {p} : proc'[q] = proc[q]
            /\ proc'[p] = [pc |-> "rename", fd |-> proc[p].fd, provider |-> proc[p].provider,
                           stale |-> proc[p].stale, body |-> proc[p].body]
        BY <3>2, WriteShape
      <4> QED
        BY <4>1 DEF At, Saving
    <3> QED
      BY <1>1, <3>1, <3>2
  <2>3. /\ \A q \in Procs : At(q, "refresh")' =>
               At(q, "refresh") /\ proc'[q].loaded = proc[q].loaded
        /\ \A q \in Procs :
              /\ SavesLogin(q)' <=> SavesLogin(q)
              /\ SavesLogin(q) => proc'[q].body = proc[q].body /\ proc'[q].stale = proc[q].stale
    BY <2>2 DEF At, SavesLogin, Saving
  <2> QED
    BY <2>1, <2>3, TokenFrame
<1>2. CASE RenameTmp(p)
  BY <1>2, TokenRename
<1>3. CASE Crash(p)
  <2>1. /\ Calm' => Calm /\ OnDisk' = OnDisk
        /\ UNCHANGED <<valid, given>> /\ (lost' <=> lost \/ SavesLogin(p))
        /\ proc'[p] = Idle /\ \A q \in Procs \ {p} : proc'[q] = proc[q]
    BY <1>3, CrashFile, CrashShape
  <2> QED
    BY <2>1, TokenFrame DEF At, SavesLogin, Saving, Idle
<1>4. CASE Token(p)
  BY <1>4, TokenLoad
<1>5. CASE WaitStep(p) \/ KeyExchange(p) \/ Exchange(p) \/ Refresh(p)
  <2>1. /\ Quiet(p) /\ OnDisk' = OnDisk /\ (Calm' => Calm)
        /\ \A q \in Procs \ {p} : proc'[q] = proc[q]
    BY <1>5, WaitShape, ExchangeShape, KeyExchangeShape, RefreshShape, QuietFile DEF Quiet
  <2>2. ~SavesLogin(p)
    BY <1>5, WaitShape, ExchangeShape, KeyExchangeShape, RefreshShape DEF SavesLogin, Saving, At
  <2>3. ASSUME ~SavesLogin(p)', ~At(p, "refresh")', UNCHANGED <<valid, given, lost>>
        PROVE  TokenInv'
    <3>1. \A q \in Procs : q # p => /\ At(q, "refresh")' <=> At(q, "refresh")
                                    /\ SavesLogin(q)' <=> SavesLogin(q)
      BY <2>1 DEF At, SavesLogin
    <3> QED
      BY <2>1, <2>2, <2>3, <3>1, TokenFrame
  <2>4. proc'[p] = Idle => ~SavesLogin(p)' /\ ~At(p, "refresh")'
    BY DEF SavesLogin, Saving, At, Idle
  <2>5. CASE WaitStep(p)
    <3>1. ~SavesLogin(p)' /\ ~At(p, "refresh")' /\ UNCHANGED <<valid, given, lost>>
      BY <2>5, WaitShape DEF SavesLogin, At
    <3> QED
      BY <2>3, <3>1
  <2>6. CASE KeyExchange(p)
    <3>1. UNCHANGED <<valid, given, lost>> /\ (LoginSaves(p, "openrouter", "key") \/ proc'[p] = Idle)
      BY <2>6, KeyExchangeShape
    <3>2. LoginSaves(p, "openrouter", "key") => ~SavesLogin(p)' /\ ~At(p, "refresh")'
      BY DEF LoginSaves, SavesLogin, At
    <3> QED
      BY <2>3, <2>4, <3>1, <3>2
  <2>7. CASE Exchange(p)
    <3>1. CASE proc'[p] = Idle /\ UNCHANGED <<valid, given>>
      BY <2>3, <2>4, <2>7, <3>1, ExchangeShape
    <3>2. CASE /\ given' = given + 1 /\ valid' = valid \union {given + 1}
               /\ \E c : c.refresh = given + 1 /\ LoginSaves(p, "codex", c)
      <4>1. PICK c : c.refresh = given + 1 /\ LoginSaves(p, "codex", c)
        BY <3>2
      <4>2. CASE Calm
        <5> DEFINE used == {}
        <5>1. IsStore(OnDisk)
          BY <4>2 DEF FileInv
        <5>2. /\ proc'[p].pc = "open" /\ proc'[p].provider = "codex"
              /\ proc'[p].body = [OnDisk EXCEPT !["codex"] = c]
          BY <4>1 DEF LoginSaves
        <5>3. proc'[p].body.codex = c
          BY <5>1, <5>2, SetOne DEF Providers
        <5>4. SavesLogin(p)' /\ ~At(p, "refresh")' /\ proc'[p].body.codex.refresh = given + 1
          BY <4>1, <5>2, <5>3 DEF SavesLogin, Saving, At
        <5>5. valid' = (valid \ used) \union {given + 1} /\ \A t \in used : FALSE
          BY <3>2
        <5> HIDE DEF used
        <5> QED
          BY <2>1, <2>2, <3>2, <5>4, <5>5, TokenGrant
      <4>3. CASE ~Calm
        BY <2>1, <4>3 DEF TokenInv
      <4> QED
        BY <4>2, <4>3
    <3> QED
      BY <2>7, <3>1, <3>2, ExchangeShape
  <2>8. CASE Refresh(p)
    <3>1. CASE proc'[p] = Idle /\ UNCHANGED <<valid, given, lost>>
      BY <2>3, <2>4, <3>1
    <3>2. CASE proc'[p] = Idle /\ Granted(p) /\ lost'
      <4>1. At(p, "refresh")
        BY <2>8, RefreshShape
      <4> DEFINE used == {proc[p].loaded.codex.refresh}
      <4>2. \A t \in used : At(p, "refresh") /\ t = proc[p].loaded.codex.refresh
        BY <4>1
      <4>3. given' = given + 1 /\ valid' = (valid \ used) \union {given + 1}
        BY <3>2 DEF Granted
      <4> HIDE DEF used
      <4> QED
        BY <2>1, <2>2, <2>4, <3>2, <4>2, <4>3, TokenGrant
    <3>3. ASSUME Calm, NEW c, Refreshed(p, c), lost' = lost,
                 \/ c.refresh = given + 1 /\ Granted(p)
                 \/ c.refresh = proc[p].loaded.codex.refresh /\ UNCHANGED <<valid, given>>
          PROVE  TokenInv'
      <4>1. At(p, "refresh") /\ IsStore(proc[p].loaded)
        BY <2>8, <3>3, RefreshShape DEF LoadInv, Loads
      <4>2. /\ proc'[p].pc = "open" /\ proc'[p].provider = "codex" /\ proc'[p].stale = proc[p].stale
            /\ proc'[p].body = [proc[p].loaded EXCEPT !["codex"] = c]
        BY <3>3 DEF Refreshed
      <4>3. proc'[p].body.codex = c
        BY <4>1, <4>2, SetOne DEF Providers
      <4>4. SavesLogin(p)' /\ ~At(p, "refresh")'
        BY <4>2 DEF SavesLogin, Saving, At
      <4>5. CASE c.refresh = given + 1 /\ Granted(p)
        <5> DEFINE used == {proc[p].loaded.codex.refresh}
        <5>1. \A t \in used : At(p, "refresh") /\ t = proc[p].loaded.codex.refresh
          BY <4>1
        <5>2. given' = given + 1 /\ valid' = (valid \ used) \union {given + 1}
          BY <4>5 DEF Granted
        <5> HIDE DEF used
        <5> QED
          BY <2>1, <2>2, <4>3, <4>4, <4>5, <5>1, <5>2, TokenGrant
      <4>6. CASE c.refresh = proc[p].loaded.codex.refresh /\ UNCHANGED <<valid, given>>
        BY <2>1, <3>3, <4>1, <4>2, <4>3, <4>4, <4>6, TokenKept
      <4> QED
        BY <3>3, <4>5, <4>6
    <3>4. CASE ~Calm
      BY <2>1, <3>4 DEF TokenInv
    <3> QED
      BY <2>8, <3>1, <3>2, <3>3, <3>4, RefreshShape
  <2> QED
    BY <1>5, <2>5, <2>6, <2>7, <2>8
<1> QED
  BY <1>1, <1>2, <1>3, <1>4, <1>5 DEF StepOf

-----------------------------------------------------------------------------
(* The theorems.                                                           *)

AuthInv == ShapeInv /\ FileInv /\ LoadInv /\ TokenInv

LEMMA AuthStart == Init => AuthInv
<1> SUFFICES ASSUME Init
             PROVE  AuthInv
  OBVIOUS
<1>1. ShapeInv
  BY DEF Init, ShapeInv, Idle, HasShape, Saving
<1>2. OnDisk = EmptyStore /\ names.auth = None /\ names.tmp = None
  BY DEF Init, OnDisk
<1>3. \A p \in Procs : proc[p].pc = "idle"
  BY DEF Init, Idle
<1>4. FileInv
  BY <1>2, <1>3 DEF FileInv, Writing, IsStore, EmptyStore
<1>5. LoadInv
  BY <1>3 DEF LoadInv, Loads, At, Saving
<1>6. TokenInv
  BY <1>2, <1>3 DEF TokenInv, GivenOut, Saves, SavesLogin, At, Saving, StoredIsGood, EmptyStore
<1> QED
  BY <1>1, <1>4, <1>5, <1>6 DEF AuthInv

\* A step of no process: time passes, or nothing happens.
LEMMA AuthIdle ==
    ASSUME AuthInv, UNCHANGED <<disk, names, valid, given, logins, proc, ghosts>>
    PROVE  AuthInv' /\ OnDisk' = OnDisk
<1>1. OnDisk' = OnDisk /\ UNCHANGED <<disk, names, valid, given, proc, raced, overlap, lost>>
  BY DEF OnDisk, ghosts
<1>2. ShapeInv'
  BY <1>1 DEF AuthInv, ShapeInv
<1>3. FileInv'
  BY <1>1 DEF AuthInv, FileInv, Calm, IsStore, Writing, At
<1>4. LoadInv'
  BY <1>1 DEF AuthInv, LoadInv, Loads, Calm, IsStore, At, Parses
<1>5. (Calm' <=> Calm) /\ (Parses(OnDisk)' <=> Parses(OnDisk))
  BY <1>1 DEF Calm, Parses
<1>6. \A q \in Procs : (SavesLogin(q)' <=> SavesLogin(q)) /\ (At(q, "refresh")' <=> At(q, "refresh"))
  BY <1>1 DEF SavesLogin, At
<1>7. TokenInv'
  BY <1>1, <1>5, <1>6, TokenFrame DEF AuthInv
<1> QED
  BY <1>1, <1>2, <1>3, <1>4, <1>7 DEF AuthInv

LEMMA NextParts ==
    ASSUME [Next]_vars
    PROVE  \/ \E p \in Procs : StepOf(p)
           \/ UNCHANGED <<disk, names, valid, given, logins, proc, ghosts>>
BY DEF Next, Step, StepOf, WaitStep, Tick, vars, ghosts

LEMMA AuthStep == AuthInv /\ [Next]_vars => AuthInv'
<1> SUFFICES ASSUME AuthInv, [Next]_vars
             PROVE  AuthInv'
  OBVIOUS
<1>1. CASE \E p \in Procs : StepOf(p)
  BY <1>1, FileStep, LoadStep, TokenStep DEF AuthInv
<1>2. CASE UNCHANGED <<disk, names, valid, given, logins, proc, ghosts>>
  BY <1>2, AuthIdle
<1> QED
  BY <1>1, <1>2, NextParts

LEMMA AuthInvariant == Spec => []AuthInv
BY AuthStart, AuthStep, PTL DEF Spec

\* The store changes only by a save that keeps every other provider as it was,
\* with any number of processes that load, refresh, log in and are killed,
\* unless two saves overlap or one replaces what it has not loaded.
THEOREM StoreIsKept == Spec => StoreKeepsWhatWasSaved
<1> DEFINE Kept1 == OnDisk' # OnDisk =>
              \/ raced' \/ overlap'
              \/ \E p \in Procs :
                    /\ At(p, "rename")
                    /\ OnDisk' = [OnDisk EXCEPT ![proc[p].provider] = proc[p].body[proc[p].provider]]
<1>1. AuthInv /\ [Next]_vars => Kept1
  <2> SUFFICES ASSUME AuthInv, [Next]_vars, OnDisk' # OnDisk, Calm'
               PROVE  \E p \in Procs :
                         /\ At(p, "rename")
                         /\ OnDisk' = [OnDisk EXCEPT ![proc[p].provider] = proc[p].body[proc[p].provider]]
    BY DEF Calm
  <2>1. PICK p \in Procs : StepOf(p)
    BY NextParts, AuthIdle
  <2>2. RenameTmp(p)
    <3>1. ~OpenTmp(p) /\ ~WriteTmp(p) /\ ~Crash(p)
      BY OpenFile, WriteFile, CrashFile DEF AuthInv
    <3>2. ~Token(p) /\ ~WaitStep(p) /\ ~Exchange(p) /\ ~KeyExchange(p) /\ ~Refresh(p)
      BY TokenShape, WaitShape, ExchangeShape, KeyExchangeShape, RefreshShape, QuietFile DEF AuthInv
    <3> QED
      BY <2>1, <3>1, <3>2 DEF StepOf
  <2>3. Calm /\ At(p, "rename") /\ ~proc[p].stale /\ OnDisk' = proc[p].body
    BY <2>2, RenameFile DEF AuthInv
  <2>4. proc[p].body = [OnDisk EXCEPT ![proc[p].provider] = proc[p].body[proc[p].provider]]
    BY <2>3 DEF AuthInv, LoadInv, Loads, At, Saving
  <2> QED
    BY <2>3, <2>4
<1>2. StoreKeepsWhatWasSaved <=> [][Kept1]_vars
  BY DEF StoreKeepsWhatWasSaved
<1> HIDE DEF Kept1
<1> QED
  BY <1>1, <1>2, AuthInvariant, PTL DEF Spec

\* The stored login keeps a refresh token the server takes, or its replacement
\* is on its way to the store, however refreshes and logins interleave, unless
\* a token was lost or two saves interfered.
THEOREM LoginIsUsable == Spec => []LoginStaysUsable
<1>1. AuthInv => LoginStaysUsable
  <2> SUFFICES ASSUME AuthInv, Calm, ~lost
               PROVE  LoginStaysUsable
    BY DEF LoginStaysUsable, Calm
  <2>1. StoredIsGood \/ \E p \in Procs : SavesLogin(p) /\ Unused(p)
    BY DEF AuthInv, TokenInv
  <2> QED
    BY <2>1 DEF StoredIsGood, SavesLogin, Unused, LoginStaysUsable
<1> QED
  BY <1>1, AuthInvariant, PTL

-----------------------------------------------------------------------------
(* Types.  A temporary file that is left over and open in no process was   *)
(* left by a process that is not in a save any more, so that there is an   *)
(* inode for the next one.                                                 *)

FileTypes ==
    /\ disk \in [Inodes -> Store \union {Blank, Torn}]
    /\ names.auth \in Inodes \union {None} /\ names.tmp \in Inodes \union {None}
    /\ names.auth # None => names.auth # names.tmp

Counters ==
    /\ now \in 0 .. MaxTime
    /\ given \in 0 .. MaxTokens /\ valid \subseteq 1 .. given
    /\ logins \in 0 .. MaxLogins

Fits(s) ==
    /\ s.pc \in {"idle", "poll", "exchange", "browser", "key", "refresh"} \union Saving
    /\ s.pc \in Saving => s.body \in Store
    /\ s.pc = "refresh" => s.loaded \in Store /\ s.loaded.codex # None
    /\ s.pc \in {"write", "rename"} => s.fd \in Inodes

Spare == names.tmp # None => names.tmp \in Held \/ \E p \in Procs : ~Writing(p)

AuthTypeInv ==
    /\ FileTypes /\ Counters /\ Spare
    /\ \A p \in Procs : Fits(proc[p])

LEMMA NatLeast ==
    ASSUME NEW T, T \subseteq Nat, T # {}
    PROVE  \E x \in T : \A y \in T : x <= y
<1> DEFINE U == {0 .. n : n \in T}
<1>1. IsWellFoundedOn(StrictSubsetOrdering(Nat), FiniteSubsetsOf(Nat))
  BY FS_StrictSubsetOrderingWellFounded
<1>2. U \subseteq FiniteSubsetsOf(Nat) /\ U # {}
  <2>1. ASSUME NEW n \in T
        PROVE  0 .. n \in FiniteSubsetsOf(Nat)
    <3>1. IsFiniteSet(0 .. n)
      BY FS_Interval
    <3> QED
      BY <3>1 DEF FiniteSubsetsOf
  <2> QED
    BY <2>1
<1>3. PICK X \in U : \A Y \in U : ~ (<<Y, X>> \in StrictSubsetOrdering(Nat))
  <2> HIDE DEF U
  <2> QED
    BY <1>1, <1>2, WFMin
<1>4. PICK x \in T : X = 0 .. x
  OBVIOUS
<1>5. ASSUME NEW y \in T, y < x
      PROVE  FALSE
  <2>1. /\ 0 .. y \subseteq 0 .. x /\ x \in 0 .. x /\ x \notin 0 .. y
        /\ 0 .. y \in SUBSET Nat /\ 0 .. x \in SUBSET Nat
    BY <1>5
  <2>2. <<0 .. y, X>> \in StrictSubsetOrdering(Nat)
    BY <1>4, <2>1 DEF StrictSubsetOrdering
  <2> QED
    BY <1>3, <2>2
<1> QED
  BY <1>5

\* No more files are open than processes are in a save.
LEMMA HeldBound ==
    /\ Cardinality(Procs) \in Nat
    /\ IsFiniteSet(Held) /\ Cardinality(Held) \in Nat /\ Cardinality(Held) <= Cardinality(Procs)
    /\ (\E p \in Procs : ~Writing(p)) => Cardinality(Held) < Cardinality(Procs)
<1> DEFINE W == {q \in Procs : Writing(q)}
           f == [q \in W |-> proc[q].fd]
<1>1. IsFiniteSet(Procs) /\ Cardinality(Procs) \in Nat
  BY AuthAssumption, FS_CardinalityType
<1>2. /\ IsFiniteSet(W) /\ Cardinality(W) <= Cardinality(Procs)
      /\ Cardinality(W) = Cardinality(Procs) => W = Procs
  <2>1. W \in SUBSET Procs
    OBVIOUS
  <2> HIDE DEF W
  <2> QED
    BY <1>1, <2>1, FS_Subset
<1>3. Cardinality(W) \in Nat
  BY <1>2, FS_CardinalityType
<1>4. f \in Surjection(W, Held)
  <2>1. Held = {proc[q].fd : q \in W}
    BY DEF Held, Writing
  <2> QED
    BY <2>1 DEF Surjection
<1>5. IsFiniteSet(Held) /\ Cardinality(Held) <= Cardinality(W)
  <2> HIDE DEF W, f
  <2> QED
    BY <1>2, <1>4, FS_Surjection
<1>6. Cardinality(Held) \in Nat
  BY <1>5, FS_CardinalityType
<1>7. (\E p \in Procs : ~Writing(p)) => W # Procs
  OBVIOUS
<1> HIDE DEF W, f
<1> QED
  BY <1>1, <1>2, <1>3, <1>5, <1>6, <1>7

\* There is an inode for the next temporary file.
LEMMA FreeLeft ==
    ASSUME FileTypes, Spare
    PROVE  Free # {} /\ Lowest(Free) \in Free
<1> DEFINE N == Cardinality(Procs)
           Opened == Held \union {names.auth}
           Taken == Held \union {names.auth, names.tmp}
<1>1. N \in Nat /\ IsFiniteSet(Held) /\ Cardinality(Held) \in Nat /\ Cardinality(Held) <= N
      /\ ((\E p \in Procs : ~Writing(p)) => Cardinality(Held) < N)
  BY HeldBound
<1>2. /\ Inodes = 1 .. N + 2 /\ None \notin Inodes /\ IsFiniteSet(Inodes) /\ Cardinality(Inodes) = N + 2
  <2>1. Inodes = 1 .. N + 2 /\ None \notin Inodes
    BY AuthAssumption DEF Inodes
  <2>2. 1 \in Int /\ N + 2 \in Int /\ ~(1 > N + 2)
    BY <1>1
  <2>3. IsFiniteSet(1 .. N + 2) /\ Cardinality(1 .. N + 2) = (N + 2) - 1 + 1
    BY <2>2, FS_Interval
  <2> QED
    BY <1>1, <2>1, <2>3
<1>3. /\ IsFiniteSet(Opened) /\ Cardinality(Opened) \in Nat
      /\ Cardinality(Opened) <= Cardinality(Held) + 1
  <2>1. /\ IsFiniteSet(Opened)
        /\ Cardinality(Opened) = IF names.auth \in Held THEN Cardinality(Held) ELSE Cardinality(Held) + 1
    BY <1>1, FS_AddElement
  <2> QED
    BY <1>1, <2>1
<1>4. \E S : /\ IsFiniteSet(S) /\ Cardinality(S) \in Nat /\ Cardinality(S) <= N + 1
             /\ Taken \ {None} \subseteq S
  <2>1. CASE names.tmp = None \/ names.tmp \in Held
    <3>1. Taken \ {None} \subseteq Opened
      BY <2>1
    <3> QED
      BY <1>1, <1>3, <3>1
  <2>2. CASE \E p \in Procs : ~Writing(p)
    <3> HIDE DEF Opened
    <3>1. /\ IsFiniteSet(Opened \union {names.tmp})
          /\ Cardinality(Opened \union {names.tmp})
                = IF names.tmp \in Opened THEN Cardinality(Opened) ELSE Cardinality(Opened) + 1
      BY <1>3, FS_AddElement
    <3>2. Cardinality(Opened \union {names.tmp}) \in Nat
          /\ Cardinality(Opened \union {names.tmp}) <= N + 1
      BY <1>1, <1>3, <2>2, <3>1
    <3>3. Taken \ {None} \subseteq Opened \union {names.tmp}
      BY DEF Opened
    <3> QED
      BY <3>1, <3>2, <3>3
  <2> QED
    BY <2>1, <2>2 DEF Spare
<1>5. PICK S : /\ IsFiniteSet(S) /\ Cardinality(S) \in Nat /\ Cardinality(S) <= N + 1
               /\ Taken \ {None} \subseteq S
  BY <1>4
<1>6. Free # {}
  <2>1. SUFFICES ASSUME Free = {} PROVE FALSE
    OBVIOUS
  <2>2. Inodes \subseteq S
    BY <1>2, <1>5, <2>1 DEF Free
  <2>3. Cardinality(Inodes) <= Cardinality(S)
    BY <1>5, <2>2, FS_Subset
  <2> QED
    BY <1>1, <1>2, <1>5, <2>3
<1>7. Free \subseteq Nat
  BY <1>1, <1>2 DEF Free
<1>8. \E i \in Free : \A j \in Free : i <= j
  BY <1>6, <1>7, NatLeast
<1> QED
  BY <1>6, <1>8 DEF Lowest

\* A step of p outside the writing of the file.
LEMMA TypeQuiet ==
    ASSUME AuthTypeInv, NEW p \in Procs, Quiet(p), Fits(proc'[p]), Counters'
    PROVE  AuthTypeInv'
<1>1. FileTypes'
  BY DEF AuthTypeInv, FileTypes, Quiet
<1>2. Spare'
  BY DEF Quiet, Spare
<1>3. \A q \in Procs : Fits(proc'[q])
  BY DEF AuthTypeInv, Quiet
<1> QED
  BY <1>1, <1>2, <1>3 DEF AuthTypeInv, Fits

LEMMA TypeOpen ==
    ASSUME ShapeInv, AuthTypeInv, NEW p \in Procs, OpenTmp(p)
    PROVE  AuthTypeInv'
<1>1. /\ At(p, "open") /\ \A q \in Procs \ {p} : proc'[q] = proc[q]
      /\ proc'[p] = [pc |-> "write", fd |-> names'.tmp, provider |-> proc[p].provider,
                     stale |-> proc[p].stale, body |-> proc[p].body]
      /\ names' = [auth |-> names.auth, tmp |-> IF names.tmp = None THEN Lowest(Free) ELSE names.tmp]
      /\ disk' = [disk EXCEPT ![names'.tmp] = Blank]
  BY OpenShape
<1>2. names'.tmp \in Inodes /\ (names'.auth # None => names'.auth # names'.tmp) /\ names'.auth = names.auth
  <2>1. Lowest(Free) \in Inodes /\ Lowest(Free) # names.auth
    BY FreeLeft DEF AuthTypeInv, Free
  <2> QED
    BY <1>1, <2>1 DEF AuthTypeInv, FileTypes
<1>3. FileTypes'
  BY <1>1, <1>2 DEF AuthTypeInv, FileTypes
<1>4. Counters'
  BY DEF AuthTypeInv, Counters, OpenTmp
<1>5. Fits(proc'[p])
  BY <1>1, <1>2 DEF AuthTypeInv, Fits, At, Saving
<1>6. Spare'
  <2>1. names'.tmp \in Held'
    BY <1>1 DEF Held
  <2> QED
    BY <2>1 DEF Spare
<1>7. \A q \in Procs : Fits(proc'[q])
  BY <1>1, <1>5 DEF AuthTypeInv
<1> QED
  BY <1>3, <1>4, <1>6, <1>7 DEF AuthTypeInv, Fits

LEMMA TypeWrite ==
    ASSUME ShapeInv, AuthTypeInv, NEW p \in Procs, WriteTmp(p)
    PROVE  AuthTypeInv'
<1>1. /\ At(p, "write") /\ \A q \in Procs \ {p} : proc'[q] = proc[q]
      /\ proc'[p] = [pc |-> "rename", fd |-> proc[p].fd, provider |-> proc[p].provider,
                     stale |-> proc[p].stale, body |-> proc[p].body]
  BY WriteShape
<1>2. proc[p].body \in Store /\ proc[p].fd \in Inodes
  BY <1>1 DEF AuthTypeInv, Fits, At, Saving
<1>3. FileTypes'
  <2>1. \E content \in {proc[p].body, Torn} : disk' = [disk EXCEPT ![proc[p].fd] = content]
    BY DEF WriteTmp
  <2>2. names' = names
    BY DEF WriteTmp
  <2> QED
    BY <1>2, <2>1, <2>2 DEF AuthTypeInv, FileTypes
<1>4. Counters'
  BY DEF AuthTypeInv, Counters, WriteTmp
<1>5. \A q \in Procs : Fits(proc'[q])
  BY <1>1, <1>2 DEF AuthTypeInv, Fits, Saving
<1>6. Spare'
  <2>1. Held \subseteq Held' /\ \A q \in Procs : ~Writing(q) => ~Writing(q)'
    BY <1>1 DEF Held, Writing, At
  <2>2. names' = names
    BY DEF WriteTmp
  <2> QED
    BY <2>1, <2>2 DEF AuthTypeInv, Spare
<1> QED
  BY <1>3, <1>4, <1>5, <1>6 DEF AuthTypeInv, Fits

LEMMA TypeRename ==
    ASSUME ShapeInv, AuthTypeInv, NEW p \in Procs, RenameTmp(p)
    PROVE  AuthTypeInv'
<1>1. Counters' /\ At(p, "rename")
  BY DEF AuthTypeInv, Counters, RenameTmp
<1>2. CASE names.tmp # None
  <2>1. /\ proc'[p] = Idle
        /\ \A q \in Procs \ {p} :
              /\ proc'[q].pc = proc[q].pc
              /\ proc[q].pc \in Saving => proc'[q].body = proc[q].body
              /\ Writing(q) => proc'[q].fd = proc[q].fd
              /\ At(q, "refresh") => proc'[q].loaded = proc[q].loaded
        /\ names' = [auth |-> names.tmp, tmp |-> None]
        /\ disk' = [i \in Inodes |-> IF i \in Held \union {names.tmp} THEN disk[i] ELSE Blank]
    BY <1>2, RenameShape
  <2>2. FileTypes'
    BY <1>2, <2>1 DEF AuthTypeInv, FileTypes
  <2>3. Spare'
    BY <2>1 DEF Spare
  <2>4. \A q \in Procs : Fits(proc'[q])
    BY <2>1 DEF AuthTypeInv, Fits, Writing, At, Idle, Saving
  <2> QED
    BY <1>1, <2>2, <2>3, <2>4 DEF AuthTypeInv, Fits
<1>3. CASE names.tmp = None
  <2>1. Quit(p) /\ UNCHANGED <<names, disk>>
    BY <1>3 DEF RenameTmp
  <2>2. proc'[p] = Idle /\ \A q \in Procs \ {p} : proc'[q] = proc[q]
    BY <2>1, QuitShape
  <2>3. FileTypes' /\ Spare'
    BY <1>3, <2>1 DEF AuthTypeInv, FileTypes, Spare
  <2>4. \A q \in Procs : Fits(proc'[q])
    BY <2>2 DEF AuthTypeInv, Fits, Idle, Saving
  <2> QED
    BY <1>1, <2>3, <2>4 DEF AuthTypeInv, Fits
<1> QED
  BY <1>2, <1>3

LEMMA TypeCrash ==
    ASSUME ShapeInv, AuthTypeInv, NEW p \in Procs, Crash(p)
    PROVE  AuthTypeInv'
<1>1. /\ proc'[p] = Idle /\ \A q \in Procs \ {p} : proc'[q] = proc[q]
      /\ names' = names
      /\ \/ disk' = disk
         \/ /\ Writing(p)
            /\ \E x \in {Blank, Torn, disk[proc[p].fd]} : disk' = [disk EXCEPT ![proc[p].fd] = x]
  BY CrashShape
<1>2. FileTypes'
  <2>1. Writing(p) => proc[p].fd \in Inodes
    BY DEF AuthTypeInv, Fits, Writing
  <2> QED
    BY <1>1, <2>1 DEF AuthTypeInv, FileTypes
<1>3. Counters'
  BY DEF AuthTypeInv, Counters, Crash
<1>4. Spare'
  <2>1. ~Writing(p)'
    BY <1>1 DEF Writing, Idle
  <2> QED
    BY <2>1 DEF Spare
<1>5. \A q \in Procs : Fits(proc'[q])
  BY <1>1 DEF AuthTypeInv, Fits, Idle, Saving
<1> QED
  BY <1>2, <1>3, <1>4, <1>5 DEF AuthTypeInv, Fits

\* What is loaded is a store.
LEMMA LoadedStore ==
    ASSUME FileTypes, Parses(OnDisk)
    PROVE  OnDisk \in Store
BY DEF FileTypes, OnDisk, Parses, EmptyStore, Store

LEMMA LoginType ==
    ASSUME Counters, NEW c, IsLogin(c), c.refresh \in 0 .. MaxTokens
    PROVE  c \in Oauth
<1>1. PICK lifetime \in Lifetimes : c.expires_at = now + lifetime
  BY DEF IsLogin
<1>2. now \in Nat /\ lifetime \in Nat
  BY AuthAssumption DEF Counters
<1> QED
  BY <1>1, <1>2 DEF IsLogin, Oauth

LEMMA GrantTypes ==
    ASSUME Counters, NEW used, Grant(used)
    PROVE  /\ given' = given + 1 /\ given' \in 0 .. MaxTokens /\ valid' \subseteq 1 .. given'
<1>1. given \in Nat /\ MaxTokens \in Nat /\ given < MaxTokens /\ given' = given + 1
  BY AuthAssumption DEF Counters, Grant, NewToken
<1>2. valid' = (valid \ used) \union {given + 1}
  BY DEF Grant, NewToken
<1>3. \A t \in valid : t \in 1 .. given + 1
  BY <1>1 DEF Counters
<1>4. given + 1 \in 1 .. given + 1 /\ given + 1 \in 0 .. MaxTokens
  BY <1>1
<1> QED
  BY <1>1, <1>2, <1>3, <1>4

LEMMA TypeLogin ==
    ASSUME ShapeInv, AuthTypeInv, NEW p \in Procs, Exchange(p) \/ KeyExchange(p)
    PROVE  AuthTypeInv'
<1>1. CASE Exchange(p)
  <2>1. Quiet(p) /\ now' = now /\ logins' = logins
    BY <1>1, ExchangeShape DEF Exchange
  <2>2. CASE proc'[p] = Idle /\ UNCHANGED <<valid, given>>
    <3>1. Counters' /\ Fits(proc'[p])
      BY <2>1, <2>2 DEF AuthTypeInv, Counters, Fits, Idle, Saving
    <3> QED
      BY <2>1, <3>1, TypeQuiet
  <2>3. ASSUME NEW c, c.refresh = given + 1, IsLogin(c), LoginSaves(p, "codex", c), Grant({})
        PROVE  AuthTypeInv'
    <3>1. given' = given + 1 /\ given' \in 0 .. MaxTokens /\ valid' \subseteq 1 .. given'
      BY <2>3, GrantTypes DEF AuthTypeInv
    <3>2. Counters'
      BY <2>1, <3>1 DEF AuthTypeInv, Counters
    <3>3. c \in Oauth
      BY <2>3, <3>1, LoginType DEF AuthTypeInv
    <3>4. OnDisk \in Store
      BY <2>3, LoadedStore DEF AuthTypeInv, LoginSaves
    <3>5. [OnDisk EXCEPT !["codex"] = c] \in Store
      BY <3>3, <3>4 DEF Store
    <3>6. Fits(proc'[p])
      BY <2>3, <3>5 DEF LoginSaves, Fits, Saving
    <3> QED
      BY <2>1, <3>2, <3>6, TypeQuiet
  <2>4. Grant({}) \/ UNCHANGED <<valid, given>>
    BY <1>1 DEF Exchange
  <2>5. \/ given' = given + 1 /\ \E c : c.refresh = given + 1 /\ IsLogin(c) /\ LoginSaves(p, "codex", c)
        \/ proc'[p] = Idle /\ UNCHANGED <<valid, given>>
    BY <1>1, ExchangeShape
  <2>6. given \in Nat
    BY DEF ShapeInv
  <2> QED
    BY <2>2, <2>3, <2>4, <2>5, <2>6
<1>2. CASE KeyExchange(p)
  <2>1. Quiet(p) /\ (LoginSaves(p, "openrouter", "key") \/ proc'[p] = Idle)
    BY <1>2, KeyExchangeShape
  <2>2. Counters'
    BY <1>2 DEF AuthTypeInv, Counters, KeyExchange
  <2>3. CASE LoginSaves(p, "openrouter", "key")
    <3>1. OnDisk \in Store
      BY <2>3, LoadedStore DEF AuthTypeInv, LoginSaves
    <3>2. [OnDisk EXCEPT !["openrouter"] = "key"] \in Store
      BY <3>1 DEF Store
    <3> QED
      BY <2>1, <2>2, <2>3, <3>2, TypeQuiet DEF LoginSaves, Fits, Saving
  <2>4. CASE proc'[p] = Idle
    BY <2>1, <2>2, <2>4, TypeQuiet DEF Fits, Idle, Saving
  <2> QED
    BY <2>1, <2>3, <2>4
<1> QED
  BY <1>1, <1>2

LEMMA TypeRefresh ==
    ASSUME ShapeInv, AuthTypeInv, NEW p \in Procs, Refresh(p)
    PROVE  AuthTypeInv'
<1>1. Quiet(p) /\ At(p, "refresh") /\ now' = now /\ logins' = logins
  BY RefreshShape DEF Refresh
<1>2. proc[p].loaded \in Store /\ proc[p].loaded.codex \in Oauth /\ given \in Nat
  BY <1>1 DEF AuthTypeInv, Fits, At, Store, ShapeInv
<1>3. Counters' /\ (given' = given + 1 => given + 1 \in 0 .. MaxTokens)
  <2>1. Grant({proc[p].loaded.codex.refresh}) \/ UNCHANGED <<valid, given>>
    BY DEF Refresh
  <2>2. CASE UNCHANGED <<valid, given>>
    BY <1>1, <1>2, <2>2 DEF AuthTypeInv, Counters
  <2>3. CASE Grant({proc[p].loaded.codex.refresh})
    <3>1. given' = given + 1 /\ given' \in 0 .. MaxTokens /\ valid' \subseteq 1 .. given'
      BY <2>3, GrantTypes DEF AuthTypeInv
    <3> QED
      BY <1>1, <3>1 DEF AuthTypeInv, Counters
  <2> QED
    BY <2>1, <2>2, <2>3
<1>4. CASE proc'[p] = Idle
  BY <1>1, <1>3, <1>4, TypeQuiet DEF Fits, Idle, Saving
<1>5. ASSUME NEW c, Refreshed(p, c), IsLogin(c),
             (c.refresh = given + 1 /\ given' = given + 1) \/ c.refresh = proc[p].loaded.codex.refresh
      PROVE  AuthTypeInv'
  <2>1. c \in Oauth
    <3>1. c.refresh \in 0 .. MaxTokens
      BY <1>2, <1>3, <1>5 DEF Oauth
    <3> QED
      BY <1>5, <3>1, LoginType DEF AuthTypeInv
  <2>2. [proc[p].loaded EXCEPT !.codex = c] \in Store
    BY <1>2, <2>1 DEF Store
  <2>3. Fits(proc'[p])
    BY <1>5, <2>2 DEF Refreshed, Fits, Saving
  <2> QED
    BY <1>1, <1>3, <2>3, TypeQuiet
<1>6. \/ \E c : /\ Refreshed(p, c) /\ IsLogin(c)
                /\ (c.refresh = given + 1 /\ given' = given + 1) \/ c.refresh = proc[p].loaded.codex.refresh
      \/ proc'[p] = Idle
  BY RefreshShape DEF Granted
<1> QED
  BY <1>4, <1>5, <1>6

LEMMA TypeWait ==
    ASSUME ShapeInv, AuthTypeInv, NEW p \in Procs, Token(p) \/ WaitStep(p)
    PROVE  AuthTypeInv'
<1>1. CASE Token(p)
  <2>1. Quiet(p) /\ proc'[p] = [pc |-> "refresh", loaded |-> OnDisk, stale |-> FALSE]
    BY <1>1, TokenShape
  <2>2. OnDisk \in Store /\ OnDisk.codex # None
    BY <1>1, LoadedStore DEF AuthTypeInv, Token
  <2>3. Fits(proc'[p])
    BY <2>1, <2>2 DEF Fits, Saving
  <2>4. Counters'
    BY <1>1 DEF AuthTypeInv, Counters, Token
  <2> QED
    BY <2>1, <2>3, <2>4, TypeQuiet
<1>2. CASE WaitStep(p)
  <2>1. Quiet(p) /\ proc'[p].pc \in {"idle", "poll", "exchange", "browser", "key"} /\ UNCHANGED <<valid, given>>
    BY <1>2, WaitShape
  <2>2. Fits(proc'[p])
    BY <2>1 DEF Fits, Saving
  <2>3. now' = now /\ (logins' = logins \/ (logins < MaxLogins /\ logins' = logins + 1))
    <3>1. CASE LoginCodex(p) \/ LoginOpenrouter(p)
      BY <3>1 DEF LoginCodex, LoginOpenrouter, StartLogin
    <3>2. CASE Approve(p) \/ Poll(p) \/ Callback(p) \/ BrowserTimeout(p)
      <4>1. CASE Approve(p)
        BY <4>1 DEF Approve
      <4>2. CASE Poll(p)
        BY <4>2 DEF Poll
      <4>3. CASE BrowserTimeout(p)
        BY <4>3 DEF BrowserTimeout
      <4>4. CASE Callback(p)
        BY <4>4 DEF Callback
      <4> QED
        BY <3>2, <4>1, <4>2, <4>3, <4>4
    <3> QED
      BY <1>2, <3>1, <3>2 DEF WaitStep
  <2>4. Counters'
    BY <2>1, <2>3, AuthAssumption DEF AuthTypeInv, Counters
  <2> QED
    BY <2>1, <2>2, <2>4, TypeQuiet
<1> QED
  BY <1>1, <1>2

LEMMA TypeStart == Init => AuthTypeInv
<1> SUFFICES ASSUME Init PROVE AuthTypeInv
  OBVIOUS
<1>1. FileTypes
  BY DEF Init, FileTypes
<1>2. Counters
  BY AuthAssumption DEF Init, Counters
<1>3. Spare /\ \A p \in Procs : Fits(proc[p])
  BY DEF Init, Spare, Fits, Idle, Saving
<1> QED
  BY <1>1, <1>2, <1>3 DEF AuthTypeInv

LEMMA TypeStep == AuthInv /\ AuthTypeInv /\ [Next]_vars => AuthTypeInv'
<1> SUFFICES ASSUME ShapeInv, AuthTypeInv, [Next]_vars
             PROVE  AuthTypeInv'
  BY DEF AuthInv
<1>1. ASSUME NEW p \in Procs, StepOf(p)
      PROVE  AuthTypeInv'
  BY <1>1, TypeOpen, TypeWrite, TypeRename, TypeCrash, TypeWait, TypeLogin, TypeRefresh DEF StepOf
<1>2. CASE UNCHANGED vars \/ Tick
  <2>1. UNCHANGED <<disk, names, proc>>
    BY <1>2 DEF vars, Tick
  <2>2. Counters'
    <3>1. UNCHANGED <<valid, given, logins>> /\ (now' = now \/ (now < MaxTime /\ now' = now + 1))
      BY <1>2 DEF vars, Tick
    <3>2. now' \in 0 .. MaxTime
      BY <3>1, AuthAssumption DEF AuthTypeInv, Counters
    <3> QED
      BY <3>1, <3>2 DEF AuthTypeInv, Counters
  <2>3. FileTypes'
    BY <2>1 DEF AuthTypeInv, FileTypes
  <2>4. Spare'
    BY <2>1 DEF AuthTypeInv, Spare, Held, Writing
  <2>5. \A q \in Procs : Fits(proc'[q])
    BY <2>1 DEF AuthTypeInv
  <2> QED
    BY <2>2, <2>3, <2>4, <2>5 DEF AuthTypeInv, Fits
<1>3. (\E p \in Procs : StepOf(p)) \/ Tick \/ UNCHANGED vars
  BY DEF Next, Step, StepOf, WaitStep
<1> QED
  BY <1>1, <1>2, <1>3

\* Every state is well-typed, at any number of saves at once: what is on the
\* disk is a store or bytes that do not parse, no refresh token is good that was
\* not given out, auth.json is never the temporary file, and there is always a
\* file for the next save.
THEOREM AuthTypes == Spec => []TypeOK
<1>1. AuthTypeInv => TypeOK
  BY FreeLeft DEF AuthTypeInv, TypeOK, FileTypes, Counters, Fits
<1> QED
  BY <1>1, AuthInvariant, TypeStart, TypeStep, PTL DEF Spec
=============================================================================
