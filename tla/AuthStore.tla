------------------------------ MODULE AuthStore ------------------------------
(***************************************************************************)
(* Credentials: the store file auth.json and how it is replaced            *)
(* (auth/src/lib.rs), the Codex login and its token refresh                *)
(* (auth/src/codex.rs), the OpenRouter login (auth/src/openrouter.rs) and  *)
(* the login commands (cli/src/main.rs).  A process here is any task that  *)
(* uses the store: a run, a child of a run, a login command.  They share   *)
(* no lock.  Files are inodes, because two saves that overlap write        *)
(* through the same temporary name.                                        *)
(***************************************************************************)
EXTENDS Naturals, FiniteSets

CONSTANTS
    Procs,
    None, Blank, Torn, \* nothing; a file just truncated; bytes that do not parse
    EXPIRY_SKEW,      \* EXPIRY_SKEW_SECS
    POLL_TIMEOUT,     \* DEVICE_POLL_TIMEOUT
    BROWSER_TIMEOUT,
    Intervals,        \* poll intervals the server may ask for
    Lifetimes,        \* expires_in of a new access token; 0 if not given
    MaxTime,          \* bound on the clock
    MaxTokens,        \* bound on the refresh tokens the server gives out
    MaxLogins         \* bound on the logins started

ASSUME AuthAssumption == /\ IsFiniteSet(Procs)
                         /\ None \notin 1 .. Cardinality(Procs) + 2
                         /\ 0 \notin Intervals
                         /\ Lifetimes \subseteq Nat
                         /\ MaxTime \in Nat /\ MaxTokens \in Nat /\ MaxLogins \in Nat
                         /\ POLL_TIMEOUT + BROWSER_TIMEOUT <= MaxTime

VARIABLES
    disk,     \* content of the inodes
    names,    \* the inodes named auth.json and auth.json.tmp
    now,      \* the clock
    valid,    \* refresh tokens the server takes
    given,    \* refresh tokens given out
    logins,   \* logins started
    proc,     \* what each process is doing
    raced,    \* history: a save replaced a store other than the one it had loaded
    overlap,  \* history: two saves were under way at once
    lost      \* history: a new refresh token died with its response or process

vars == <<disk, names, now, valid, given, logins, proc, raced, overlap, lost>>
ghosts == <<raced, overlap, lost>>

Providers == {"codex", "openrouter"}
Inodes == 1 .. Cardinality(Procs) + 2
Oauth == [refresh : 0 .. MaxTokens, expires_at : Nat]
Store == [codex : Oauth \union {None}, openrouter : {None, "key"}]
EmptyStore == [codex |-> None, openrouter |-> None]

Idle == [pc |-> "idle"]
Saving == {"open", "write", "rename"}

Init ==
    /\ disk = [i \in Inodes |-> Blank]
    /\ names = [auth |-> None, tmp |-> None]
    /\ now = 0
    /\ valid = {}
    /\ given = 0
    /\ logins = 0
    /\ proc = [p \in Procs |-> Idle]
    /\ raced = FALSE
    /\ overlap = FALSE
    /\ lost = FALSE

At(p, pc) == proc[p].pc = pc
Become(p, state) == proc' = [proc EXCEPT ![p] = state]
Quit(p) == Become(p, Idle)

\* What load finds: a store, or bytes that do not parse.
OnDisk == IF names.auth = None THEN EmptyStore ELSE disk[names.auth]
Parses(content) == content \notin {Blank, Torn}

-----------------------------------------------------------------------------
(* AuthFile::set and save: the loaded providers with one replaced.         *)

\* Slip: the file is written from the new credential alone.
SaveOnly(p, provider, credential) ==
    Become(p, [pc |-> "open", provider |-> provider, stale |-> FALSE,
               body |-> [EmptyStore EXCEPT ![provider] = credential]])

\* The store is loaded in the same breath as it is set (login).
LoadAndSet(p, provider, credential) ==
    Become(p, [pc |-> "open", provider |-> provider, stale |-> FALSE,
               body |-> [OnDisk EXCEPT ![provider] = credential]])

Held == {proc[p].fd : p \in {q \in Procs : proc[q].pc \in {"write", "rename"}}}
Free == Inodes \ (Held \union {names.auth, names.tmp})
Lowest(S) == CHOOSE i \in S : \A j \in S : i <= j

\* Slip: the store is moved into place before it is written.
OpenInPlace(p) ==
    /\ At(p, "open")
    /\ LET fd == IF names.auth = None THEN Lowest(Free) ELSE names.auth IN
           /\ names' = [auth |-> fd, tmp |-> fd]
           /\ disk' = [disk EXCEPT ![fd] = Blank]
           /\ proc' = [proc EXCEPT ![p] = [pc |-> "write", fd |-> fd, provider |-> @.provider,
                                           stale |-> @.stale, body |-> @.body]]
    /\ overlap' = (overlap \/ Held # {})
    /\ UNCHANGED <<now, valid, given, logins, raced, lost>>

\* The temporary file is created, or the one that is there is truncated.
OpenTmp(p) ==
    /\ At(p, "open")
    /\ LET fd == IF names.tmp = None THEN Lowest(Free) ELSE names.tmp IN
           /\ names' = [names EXCEPT !.tmp = fd]
           /\ disk' = [disk EXCEPT ![fd] = Blank]
           /\ proc' = [proc EXCEPT ![p] = [pc |-> "write", fd |-> fd, provider |-> @.provider,
                                           stale |-> @.stale, body |-> @.body]]
    /\ overlap' = (overlap \/ Held # {})
    /\ UNCHANGED <<now, valid, given, logins, raced, lost>>

\* The bytes go to the start of the file; those of a longer body another
\* process has written meanwhile stay behind them.
WriteTmp(p) ==
    /\ At(p, "write")
    /\ \E content \in {proc[p].body} \union IF disk[proc[p].fd] \in {Blank, proc[p].body} THEN {} ELSE {Torn} :
           disk' = [disk EXCEPT ![proc[p].fd] = content]
    /\ Become(p, [proc[p] EXCEPT !.pc = "rename"])
    /\ UNCHANGED <<names, now, valid, given, logins, ghosts>>

\* p is done; what the others have loaded is not what is there any more.
Replaced(p) ==
    [q \in Procs |-> IF q = p THEN Idle
                     ELSE IF proc[q].pc \in Saving \union {"refresh"} THEN [proc[q] EXCEPT !.stale = TRUE]
                     ELSE proc[q]]

\* A save whose temporary file another one has renamed fails.
RenameTmp(p) ==
    /\ At(p, "rename")
    /\ \/ /\ names.tmp # None
          /\ names' = [auth |-> names.tmp, tmp |-> None]
          /\ disk' = [i \in Inodes |-> IF i \in Held \union {names.tmp} THEN disk[i] ELSE Blank]
          /\ proc' = Replaced(p)
          /\ raced' = (raced \/ proc[p].stale)
       \/ names.tmp = None /\ Quit(p) /\ UNCHANGED <<names, disk, raced>>
    /\ UNCHANGED <<now, valid, given, logins, overlap, lost>>

-----------------------------------------------------------------------------
(* The authorization server (external): refresh tokens are used once, and  *)
(* an answer may be lost.                                                  *)

NewToken == given + 1

Grant(used) ==
    /\ given < MaxTokens
    /\ given' = NewToken
    /\ valid' = (valid \ used) \union {NewToken}

-----------------------------------------------------------------------------
(* StoredCodex::token and CodexCliBorrow::token.                           *)

\* A stored token is handed out while it is good for longer than the skew; no
\* store, a store that does not parse, or no Codex login fails the call.
Token(p) ==
    /\ At(p, "idle")
    /\ Parses(OnDisk)
    /\ OnDisk.codex # None
    /\ OnDisk.codex.expires_at <= now + EXPIRY_SKEW
    /\ Become(p, [pc |-> "refresh", loaded |-> OnDisk, stale |-> FALSE])
    /\ UNCHANGED <<disk, names, now, valid, given, logins, ghosts>>

\* Slip: a response without a refresh token clears it.
KeptIfGiven(old, new) == 0

\* A refresh response may omit a new refresh token; the old one is kept.
Kept(old, new) == old

\* The refresh: a new refresh token, none (the old one stays good), or an error.
Refresh(p) ==
    /\ At(p, "refresh")
    /\ LET old == proc[p].loaded.codex.refresh
           set(new, lifetime) ==
               Become(p, [pc |-> "open", provider |-> "codex", stale |-> proc[p].stale,
                          body |-> [proc[p].loaded EXCEPT
                                        !.codex = [refresh |-> new, expires_at |-> now + lifetime]]])
       IN  \/ /\ old \in valid
              /\ \E lifetime \in Lifetimes :
                    \/ Grant({old}) /\ set(NewToken, lifetime)
                    \/ UNCHANGED <<valid, given>> /\ set(Kept(old, NewToken), lifetime)
              /\ UNCHANGED lost
           \/ old \in valid /\ Grant({old}) /\ lost' = TRUE /\ Quit(p)
           \/ Quit(p) /\ UNCHANGED <<valid, given, lost>>
    /\ UNCHANGED <<disk, names, now, logins, raced, overlap>>

-----------------------------------------------------------------------------
(* Logins.                                                                 *)

StartLogin(p, state) ==
    /\ At(p, "idle")
    /\ logins < MaxLogins
    /\ now + POLL_TIMEOUT <= MaxTime /\ now + BROWSER_TIMEOUT <= MaxTime
    /\ logins' = logins + 1
    /\ Become(p, state)
    /\ UNCHANGED <<disk, names, now, valid, given, ghosts>>

\* The code is requested and shown.
LoginCodex(p) ==
    \E interval \in Intervals :
        StartLogin(p, [pc |-> "poll", wake |-> now, deadline |-> now + POLL_TIMEOUT,
                       interval |-> interval, approved |-> FALSE])

\* The user enters the code.
Approve(p) ==
    /\ At(p, "poll") /\ ~proc[p].approved
    /\ Become(p, [proc[p] EXCEPT !.approved = TRUE])
    /\ UNCHANGED <<disk, names, now, valid, given, logins, ghosts>>

\* Slip: the loop has no deadline.
PollOn(p) == Become(p, [proc[p] EXCEPT !.wake = now + proc[p].interval])

\* Not approved yet: sleep, unless the deadline would pass.
PollAgain(p) ==
    IF now + proc[p].interval > proc[p].deadline THEN Quit(p)
    ELSE Become(p, [proc[p] EXCEPT !.wake = now + proc[p].interval])

\* One request: a code to exchange, not yet, or an error, which ends the login.
Poll(p) ==
    /\ At(p, "poll") /\ now >= proc[p].wake
    /\ \/ proc[p].approved /\ Become(p, [pc |-> "exchange"])
       \/ ~proc[p].approved /\ PollAgain(p)
       \/ Quit(p)
    /\ UNCHANGED <<disk, names, now, valid, given, logins, ghosts>>

\* The approved code becomes a credential, and the store is loaded and set; an
\* error of the server, the transport or the store ends the login.
Exchange(p) ==
    /\ At(p, "exchange")
    /\ \/ /\ Parses(OnDisk)
          /\ Grant({})
          /\ \E lifetime \in Lifetimes :
                LoadAndSet(p, "codex", [refresh |-> NewToken, expires_at |-> now + lifetime])
       \/ Quit(p) /\ UNCHANGED <<valid, given>>
    /\ UNCHANGED <<disk, names, now, logins, ghosts>>

\* The browser is opened and one callback awaited, for a while.
LoginOpenrouter(p) == StartLogin(p, [pc |-> "browser", deadline |-> now + BROWSER_TIMEOUT])

\* The callback brings a code, or an error, which ends the login.
Callback(p) ==
    /\ At(p, "browser")
    /\ Become(p, [pc |-> "key"]) \/ Quit(p)
    /\ UNCHANGED <<disk, names, now, valid, given, logins, ghosts>>

\* The timeout covers the wait for the callback and nothing after it.
BrowserTimeout(p) ==
    /\ At(p, "browser") /\ now >= proc[p].deadline
    /\ Quit(p)
    /\ UNCHANGED <<disk, names, now, valid, given, logins, ghosts>>

\* The code becomes a key, and the store is loaded and set; an error of the
\* server, the transport or the store ends the login.  The client of this
\* request has no timeout: the answer may never come.
KeyExchange(p) ==
    /\ At(p, "key")
    /\ \/ Parses(OnDisk) /\ LoadAndSet(p, "openrouter", "key")
       \/ Quit(p)
    /\ UNCHANGED <<disk, names, now, valid, given, logins, ghosts>>

-----------------------------------------------------------------------------
(* The rest of the world.                                                  *)

Tick ==
    /\ now < MaxTime
    /\ now' = now + 1
    /\ UNCHANGED <<disk, names, valid, given, logins, proc, ghosts>>

HeldByOthers(p) == {proc[q].fd : q \in {r \in Procs \ {p} : proc[r].pc \in {"write", "rename"}}}

\* A process dies, possibly half through its write.  What it leaves in the
\* temporary file matters only to a save that overlaps: the next one truncates.
Crash(p) ==
    /\ ~At(p, "idle")
    /\ lost' = (lost \/ (proc[p].pc \in Saving /\ proc[p].provider = "codex"))
    /\ IF At(p, "write") \/ At(p, "rename")
       THEN LET fd == proc[p].fd IN
            \E left \in {disk[fd]} \union IF At(p, "write") THEN {Torn} ELSE {} :
                disk' = [disk EXCEPT ![fd] = IF fd \in HeldByOthers(p) \union {names.auth} THEN left ELSE Blank]
       ELSE UNCHANGED disk
    /\ Quit(p)
    /\ UNCHANGED <<names, now, valid, given, logins, raced, overlap>>

Step(p) ==
    \/ OpenTmp(p) \/ WriteTmp(p) \/ RenameTmp(p)
    \/ Refresh(p) \/ Poll(p) \/ Exchange(p) \/ BrowserTimeout(p)

Next ==
    \/ \E p \in Procs : \/ Step(p) \/ Token(p) \/ LoginCodex(p) \/ LoginOpenrouter(p)
                        \/ Approve(p) \/ Callback(p) \/ KeyExchange(p) \/ Crash(p)
    \/ Tick

\* The Codex requests have a timeout, the file system answers, and time passes:
\* a process that has such a step takes it.  The user need not approve, and the
\* key exchange of the browser login, which has no timeout, need not return.
Fairness == WF_vars(Tick) /\ \A p \in Procs : WF_vars(Step(p))

Spec == Init /\ [][Next]_vars /\ Fairness

-----------------------------------------------------------------------------
(* Properties.                                                             *)

TypeOK ==
    /\ disk \in [Inodes -> Store \union {Blank, Torn}]
    /\ names.auth \in Inodes \union {None} /\ names.tmp \in Inodes \union {None}
    /\ names.auth # None => names.auth # names.tmp
    /\ now \in 0 .. MaxTime
    /\ valid \subseteq 1 .. given /\ given \in 0 .. MaxTokens
    /\ logins \in 0 .. MaxLogins
    /\ \A p \in Procs : proc[p].pc \in {"idle", "poll", "exchange", "browser", "key", "refresh"} \union Saving
    /\ Free # {}

\* The store changes only when a save moves its file into place, and then keeps
\* what is stored for every other provider; crashes anywhere in a save leave it
\* readable and whole.  This needs that no two saves overlap and that none
\* replaces a store it has not loaded, and only timing sees to it: a refresh
\* awaits the server between load and save (lib.rs:84-129, codex.rs:278-302).
StoreKeepsWhatWasSaved ==
    [][OnDisk' # OnDisk =>
           \/ raced' \/ overlap'
           \/ \E p \in Procs :
                 /\ At(p, "rename")
                 /\ OnDisk' = [OnDisk EXCEPT ![proc[p].provider] = proc[p].body[proc[p].provider]]]_vars

\* The stored login stays usable: its refresh token is one the server takes, or
\* its replacement is on the way to the store; unless an answer or a process was
\* lost or two saves interfered (codex.rs:74-91, :301-302).
LoginStaysUsable ==
    ~raced /\ ~overlap /\ ~lost =>
        \/ ~Parses(OnDisk) \/ OnDisk.codex = None
        \/ OnDisk.codex.refresh \in valid
        \/ \E p \in Procs : /\ proc[p].pc \in Saving /\ proc[p].provider = "codex"
                            /\ proc[p].body.codex.refresh \in valid

\* No login waits for its user for ever.  The device login ends: approved,
\* refused, or given up when the next poll would come after the deadline,
\* whatever interval the server asks for (codex.rs:141-196).  The wait for the
\* browser ends as well (cli/src/main.rs:308-314), but not the login: the
\* exchange of its code is awaited without a limit (cli/src/main.rs:316).
NoLoginWaitsForItsUser ==
    \A p \in Procs : /\ At(p, "poll") ~> At(p, "idle")
                     /\ At(p, "browser") ~> ~At(p, "browser")

\* What the documents say of the store: it is written atomically.  A save that
\* truncates the temporary file another one is about to rename leaves bytes that
\* do not parse.
StoreIsNeverTorn == Parses(OnDisk)
=============================================================================
