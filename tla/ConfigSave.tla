----------------------------- MODULE ConfigSave ------------------------------
(***************************************************************************)
(* How a list of host entries comes into force: saved from the settings    *)
(* page of one of several browser tabs, imported, or loaded from           *)
(* config.yaml (app/main.py, app/config.py, app/web/app.js).               *)
(*                                                                         *)
(* The page never gets to see a token secret.  It sends the placeholder    *)
(* for every field left blank, and the service fills in what it has stored *)
(* for the entry with the same id, else with the same product and name.    *)
(* Then every entry is given a unique id, in a loop over the list, and the *)
(* list is written to the file and handed to the engine, whose latches are *)
(* kept by id.  A request is worked off without an await: only the death   *)
(* of the process, or a failed write, comes between its steps.             *)
(*                                                                         *)
(* UPS sources and webhooks take the same way, without the names.          *)
(***************************************************************************)
EXTENDS Naturals, Sequences, FiniteSets

CONSTANTS
    Machines,   \* what an entry may be meant for
    Names,      \* node names
    Words,      \* what ids begin with
    Slug,       \* the id each name is turned into
    Tabs,       \* browser tabs
    Initial,    \* the list first in force
    Written,    \* lists a file or a backup from elsewhere may hold
    MaxHosts,   \* bound on the entries of a page
    MaxSaves,   \* bound on the lists submitted
    Faults      \* what else may happen: subset of {"write", "crash", "old"}

None == "none"
Types == {"pve", "pbs"}

\* An id is a word and the numbers hung on it: "host2", "pve01", "pve01-2".
Ids == [word: Words, numbers: Seq(Nat)]
NoId == [word |-> "", numbers |-> <<>>]
HostId(k) == [word |-> "host", numbers |-> <<k>>]
Suffixed(id, k) == [word |-> id.word, numbers |-> Append(id.numbers, k)]

\* The token secret of an entry, by the machine and the product it was made on.
Token == [of: Machines, type: Types]
NoToken == [of |-> None, type |-> None]
Kept == [of |-> "kept", type |-> None]   \* SECRET_PLACEHOLDER

\* A host entry.
Entry == [id: Ids, machine: Machines, type: Types, name: Names, on: BOOLEAN,
          token: Token \cup {NoToken, Kept}]
Own(e) == [of |-> e.machine, type |-> e.type]

WithToken(e, t) == [id |-> e.id, machine |-> e.machine, type |-> e.type, name |-> e.name,
                    on |-> e.on, token |-> t]
WithId(e, id) == [id |-> id, machine |-> e.machine, type |-> e.type, name |-> e.name,
                  on |-> e.on, token |-> e.token]

UniqueIds(list) ==
    /\ \A i \in DOMAIN list : list[i].id # NoId
    /\ \A i, j \in DOMAIN list : list[i].id = list[j].id => i = j

ASSUME ConfigAssumption ==
    /\ None \notin Machines \cup Tabs /\ "kept" \notin Machines
    /\ Slug \in [Names -> Ids \ {NoId}]
    /\ Written \subseteq Seq(Entry) /\ Initial \in Seq(Entry) /\ UniqueIds(Initial)
    /\ MaxHosts \in Nat /\ MaxSaves \in Nat
    /\ Faults \subseteq {"write", "crash", "old"}

ASSUME WordsAssumption == {"", "host"} \subseteq Words

VARIABLES
    phase,      \* "down", "ready", or "assigning"
    hosts,      \* the list in force
    file,       \* that of config.yaml
    pages,      \* what each tab has loaded
    \* the request at work
    origin,     \* "load", "import" or "save"
    tab,        \* whose save it is
    timely,     \* the page showed what is in force
    bare,       \* the page sends no ids
    given,      \* the list as it was submitted or read ...
    draft,      \* ... and as it will come into force
    next, n,    \* the loop: the entry to look at, and the suffix to try
    taken, used,
    saves

request == <<origin, tab, timely, bare, given>>
loop == <<draft, next, n, taken, used>>
vars == <<phase, hosts, file, pages, request, loop, saves>>

IdsOf(list) == {list[i].id : i \in DOMAIN list} \ {NoId}
Masked(list) == [i \in DOMAIN list |-> WithToken(list[i], Kept)]

TypeOK ==
    /\ phase \in {"down", "ready", "assigning"}
    /\ hosts \in Seq(Entry) /\ file \in Seq(Entry)
    /\ pages \in [Tabs -> Seq(Entry)]
    /\ origin \in {"load", "import", "save"}
    /\ tab \in Tabs \cup {None}
    /\ timely \in BOOLEAN /\ bare \in BOOLEAN
    /\ given \in Seq(Entry) /\ draft \in Seq(Entry)
    /\ next \in Nat \ {0} /\ n \in Nat \ {0}
    /\ taken \subseteq Ids /\ used \subseteq Ids
    /\ saves \in 0..MaxSaves

-----------------------------------------------------------------------------
(* The settings page. *)

\* What becomes of a card in one visit.  A card stands for one machine.
Versions(e) ==
    {e} \cup {[e EXCEPT !.name = x] : x \in Names} \cup {[e EXCEPT !.type = x] : x \in Types}
        \cup {[e EXCEPT !.on = ~e.on], [e EXCEPT !.token = Own(e)]}

\* The cards that are left, in their order.
Left(list) ==
    LET f[k \in 0..Len(list)] ==
            IF k = 0 THEN {<<>>}
            ELSE f[k - 1] \cup {Append(s, e) : s \in f[k - 1], e \in Versions(list[k])}
    IN f[Len(list)]

\* MUTANT of NewCardId: the form alone is asked which number is free.
NewCardIdOfForm(form, loaded) ==
    HostId(CHOOSE k \in 1..(Len(form) + 1) :
             /\ HostId(k) \notin IdsOf(form)
             /\ \A m \in 1..(k - 1) : HostId(m) \in IdsOf(form))

\* newCardId: the lowest number in neither the form nor what was loaded.
NewCardId(form, loaded) ==
    LET ids == IdsOf(form) \cup IdsOf(loaded)
    IN HostId(CHOOSE k \in 1..(Cardinality(ids) + 1) :
                HostId(k) \notin ids /\ \A m \in 1..(k - 1) : HostId(m) \in ids)

\* A card may be added, for a machine that has none.
Forms(loaded) ==
    LET left == Left(loaded)
        NewCards(form) ==
            [id: {NewCardId(form, loaded)}, type: Types, name: Names, on: BOOLEAN,
             machine: Machines \ {form[i].machine : i \in DOMAIN form}, token: {NoToken, Kept}]
        Typed(e) == IF e.token = NoToken THEN [e EXCEPT !.token = Own(e)] ELSE e
    IN left \cup UNION {{Append(form, Typed(e)) : e \in NewCards(form)} : form \in left}

\* incompleteCards: a new card that is switched on needs its token.
Complete(form, loaded) ==
    \A i \in DOMAIN form :
        form[i].on /\ form[i].token = Kept => form[i].id \in IdsOf(loaded)

\* An app.js from before the ids, still in the browser's cache.
WithoutIds(form) == [i \in DOMAIN form |-> WithId(form[i], NoId)]

-----------------------------------------------------------------------------
(* The service. *)

ById(e) == {h \in {hosts[i] : i \in DOMAIN hosts} : e.id # NoId /\ h.id = e.id}

\* Of several entries of one product and name, the last is in the index.
ByName(e) ==
    LET at == {i \in DOMAIN hosts : hosts[i].type = e.type /\ hosts[i].name = e.name}
    IN {hosts[i] : i \in {k \in at : \A m \in at : m <= k}}

\* MUTANT of FindHost: an entry is known by its product and name alone.
FindHostByName(e) == ByName(e)

\* _find_host: the stored entry meant, none or one.
FindHost(e) == IF ById(e) # {} THEN ById(e) ELSE ByName(e)

\* MUTANT of StoredToken: for whatever product the token was stored.
StoredTokenOfAny(e) == {h.token : h \in FindHost(e)}

\* A token is filled in only for the product it was stored for.
StoredToken(e) == {h.token : h \in {x \in FindHost(e) : x.type = e.type}}

\* _reconcile_host_secrets
Reconciled(e) ==
    IF e.token # Kept THEN e
    ELSE WithToken(e, IF StoredToken(e) = {} THEN NoToken ELSE CHOOSE t \in StoredToken(e) : TRUE)
Merged(form) == [i \in DOMAIN form |-> Reconciled(form[i])]

\* _assign_unique_ids begins.
BeginAssign(list, from) ==
    /\ phase' = "assigning"
    /\ origin' = from
    /\ given' = list /\ draft' = list
    /\ next' = 1 /\ n' = 1
    /\ taken' = IdsOf(list) /\ used' = {}

\* POST /api/config.
Save(t) ==
    /\ phase = "ready" /\ saves < MaxSaves
    /\ \E form \in Forms(pages[t]), b \in BOOLEAN :
         /\ form \in Seq(Entry) /\ Len(form) <= MaxHosts
         /\ Complete(form, pages[t])
         /\ b => "old" \in Faults
         /\ BeginAssign(Merged(IF b THEN WithoutIds(form) ELSE form), "save")
         /\ bare' = b
    /\ tab' = t
    /\ timely' = (pages[t] = Masked(hosts))
    /\ saves' = saves + 1
    /\ UNCHANGED <<hosts, file, pages>>

\* POST /api/config/import: a backup holds its secrets, and nothing is merged.
Import(list) ==
    /\ phase = "ready" /\ saves < MaxSaves
    /\ BeginAssign(list, "import")
    /\ saves' = saves + 1
    /\ tab' = None /\ timely' = FALSE /\ bare' = FALSE
    /\ UNCHANGED <<hosts, file, pages>>

\* load_config, at the start of the process.
Start ==
    /\ phase = "down"
    /\ BeginAssign(file, "load")
    /\ tab' = None /\ timely' = FALSE /\ bare' = FALSE
    /\ UNCHANGED <<hosts, file, pages, saves>>

\* MUTANT of HasItsId: only an entry without an id is given one.
HasAnyId(e) == e.id # NoId

\* The first holder of an id keeps it.
HasItsId(e) == e.id # NoId /\ e.id \notin used

Keep ==
    /\ phase = "assigning" /\ next <= Len(draft)
    /\ HasItsId(draft[next])
    /\ used' = used \cup {draft[next].id}
    /\ next' = next + 1 /\ n' = 1
    /\ UNCHANGED <<phase, hosts, file, pages, request, draft, taken, saves>>

\* base_for, or the id that is split.
Base(e) == IF e.id # NoId THEN e.id ELSE Slug[e.name]
Candidate == IF n = 1 THEN Base(draft[next]) ELSE Suffixed(Base(draft[next]), n)

TryNext ==
    /\ phase = "assigning" /\ next <= Len(draft)
    /\ ~HasItsId(draft[next])
    /\ Candidate \in taken \cup used
    /\ n' = n + 1
    /\ UNCHANGED <<phase, hosts, file, pages, request, draft, next, taken, used, saves>>

Assign ==
    /\ phase = "assigning" /\ next <= Len(draft)
    /\ ~HasItsId(draft[next])
    /\ Candidate \notin taken \cup used
    /\ draft' = [draft EXCEPT ![next] = WithId(draft[next], Candidate)]
    /\ taken' = taken \cup {Candidate} /\ used' = used \cup {Candidate}
    /\ next' = next + 1 /\ n' = 1
    /\ UNCHANGED <<phase, hosts, file, pages, request, saves>>

\* What a request leaves behind when it is over.
EndRequest ==
    /\ origin' = "load" /\ tab' = None /\ timely' = FALSE /\ bare' = FALSE
    /\ given' = <<>> /\ draft' = <<>>
    /\ next' = 1 /\ n' = 1 /\ taken' = {} /\ used' = {}

\* The list is written, unless it was read, and comes into force; the tab that sent it
\* loads it anew.
Commit ==
    /\ phase = "assigning" /\ next > Len(draft)
    /\ phase' = "ready"
    /\ hosts' = draft
    /\ file' = IF origin = "load" THEN file ELSE draft
    /\ pages' = [t \in Tabs |-> IF t = tab THEN Masked(draft) ELSE pages[t]]
    /\ EndRequest
    /\ UNCHANGED saves

\* save_config raises: nothing has changed.
WriteFails ==
    /\ phase = "assigning" /\ next > Len(draft) /\ origin # "load" /\ "write" \in Faults
    /\ phase' = "ready"
    /\ EndRequest
    /\ UNCHANGED <<hosts, file, pages, saves>>

\* GET /api/config.
LoadPage(t) ==
    /\ phase = "ready"
    /\ pages' = [pages EXCEPT ![t] = Masked(hosts)]
    /\ UNCHANGED <<phase, hosts, file, request, loop, saves>>

\* The process ends, idle or in a request whose file may have been replaced.
Crash ==
    /\ phase # "down" /\ "crash" \in Faults
    /\ phase' = "down"
    /\ \/ UNCHANGED file
       \/ phase = "assigning" /\ next > Len(draft) /\ origin # "load" /\ file' = draft
    /\ EndRequest
    /\ UNCHANGED <<hosts, pages, saves>>

\* The operator replaces the file of a process that is not running.
WriteByHand(list) ==
    /\ phase = "down" /\ saves < MaxSaves
    /\ file' = list
    /\ saves' = saves + 1
    /\ UNCHANGED <<phase, hosts, pages, request, loop>>

Init ==
    /\ phase = "down"
    /\ hosts = Initial /\ file = Initial /\ pages = [t \in Tabs |-> Masked(Initial)]
    /\ origin = "load" /\ tab = None /\ timely = FALSE /\ bare = FALSE
    /\ given = <<>> /\ draft = <<>> /\ next = 1 /\ n = 1 /\ taken = {} /\ used = {}
    /\ saves = 0

Next ==
    \/ \E t \in Tabs : Save(t) \/ LoadPage(t)
    \/ \E list \in Written : Import(list) \/ WriteByHand(list)
    \/ Start \/ Keep \/ TryNext \/ Assign \/ Commit \/ WriteFails \/ Crash

Spec == Init /\ [][Next]_vars

-----------------------------------------------------------------------------
(* Properties. *)

\* No two entries in force share an id, and none has an empty one: the engine latches a
\* shutdown by id, and with a latch shared only one of two machines is shut down, whatever
\* a stale page, a backup or a file written by hand holds (config.py:1020-1048).
KeysAreUnique == UniqueIds(hosts)

\* The first holder of an id keeps it, although an entry before it may be given an id first
\* (config.py:1031-1032).
FirstHolderKeeps ==
    phase = "assigning" =>
        \A i \in DOMAIN draft :
            (/\ given[i].id # NoId
             /\ \A k \in 1..(i - 1) : given[k].id # given[i].id)
            => draft[i].id = given[i].id

\* A save from a page that shows what is in force hands no id, and with it no latch, to
\* another machine, whatever is removed and added in one visit (app.js:564-582).
IdsStay ==
    [][(origin = "save" /\ timely /\ ~bare) =>
         \A i \in DOMAIN hosts, j \in DOMAIN hosts' :
             hosts[i].id = hosts'[j].id => hosts[i].machine = hosts'[j].machine]_hosts

\* Such a save gives no enabled entry a token made elsewhere, unless it had it before
\* (main.py:501-509, app.js:583-590).
TokensStay ==
    [][(origin = "save" /\ timely /\ ~bare) =>
         \A j \in DOMAIN hosts' :
             \/ ~hosts'[j].on
             \/ hosts'[j].token \in {NoToken, Own(hosts'[j])}
             \/ \E i \in DOMAIN hosts :
                  /\ hosts[i].machine = hosts'[j].machine /\ hosts[i].type = hosts'[j].type
                  /\ hosts[i].token = hosts'[j].token]_hosts

\* Alone(i): no other entry in force has the product and name of this one.
Alone(i) ==
    \A k \in DOMAIN hosts \ {i} : ~(hosts[k].type = hosts[i].type /\ hosts[k].name = hosts[i].name)

\* Such a save loses no stored token of an entry that keeps its product, renamed or not;
\* and from a page without ids none of an entry that keeps its name as well
\* (main.py:479-490, CHANGELOG.md:681-688).
TokensAreKept ==
    [][(origin = "save" /\ timely) =>
         \A i \in DOMAIN hosts, j \in DOMAIN hosts' :
             (/\ hosts[i].machine = hosts'[j].machine /\ hosts[i].type = hosts'[j].type
              /\ \/ ~bare /\ hosts[i].id = hosts'[j].id
                 \/ bare /\ hosts[i].name = hosts'[j].name /\ Alone(i))
             => hosts'[j].token \in {hosts[i].token, Own(hosts'[j])}]_hosts
=============================================================================
