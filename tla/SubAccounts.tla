---------------------------- MODULE SubAccounts ----------------------------
\* The accounts of the subscription service (opensub): register, sign in,
\* recover, the devices, the orders and what the owner does to them
\* (subscription/server/accounts.go, admin.go, store.go).  The state is in
\* memory under one lock and is written whole to one file after a change;
\* a handler whose save fails answers an error but mostly leaves its
\* change in memory.  Checking a password takes long, so login, the change
\* of a password and the removal of an account do it outside the lock, and
\* go on with what they had read before.
EXTENDS Integers, FiniteSets, Sequences, SequencesExt, FiniteSetsExt, Functions

CONSTANTS
    Accounts,       \* ids of accounts
    Logins,         \* what the accounts are called
    Plans,          \* plan -> [days, devices, trial]
    FirstPlan,      \* cfg.Plans[0]
    OrderIds, KeyIds,
    AutoTrial,      \* cfg.AutoTrial
    Scenes,         \* sets of families of requests: one is what is asked
    MaxFails,       \* wrong answers after which a login is not looked at
    MaxRequests,    \* requests outside the lock at once (a bound of the model)
    MaxDevices,     \* devices signed in during a behaviour (a bound)
    MaxSecret,      \* passwords chosen during a behaviour (a bound)
    MaxNow,         \* days that pass (a bound)
    MaxExpires,     \* the end of a subscription (a bound)
    MaxFaults,      \* saves that fail and restarts (a bound)
    None

VARIABLES
    scene,          \* the families of requests that are asked
    state,          \* the state in memory: users, orders, keys
    disk,           \* the state as it was last saved
    requests,       \* the requests that gave up the lock
    lim,            \* login -> wrong answers in the window
    secrets,        \* passwords chosen
    made,           \* devices signed in
    now,
    faults,         \* saves that failed and restarts
    told,           \* history: what was acknowledged
    crossed         \* history: a login or a change of a password that went on
                    \* with what it had read before another change

accountVars == <<scene, state, disk, requests, lim, secrets, made, now,
    faults, told, crossed>>

users == state.users
TrialPlans == {p \in DOMAIN Plans : Plans[p].trial}

Device == [id : Nat, pass : Nat]
User == [login : Logins, pass : Nat, plan : DOMAIN Plans \cup {None},
         expires : 0..MaxExpires, trial : BOOLEAN, banned : BOOLEAN,
         devices : Seq(Device)]

TypeOK ==
    /\ scene \in Scenes
    /\ \A s \in {state, disk} :
        /\ DOMAIN s.users \subseteq Accounts
        /\ DOMAIN s.orders \subseteq OrderIds
        /\ \A u \in DOMAIN s.users :
            /\ s.users[u].pass \in 1..secrets
            /\ s.users[u].expires \in 0..MaxExpires
            /\ \A d \in Range(s.users[u].devices) : d.id \in 1..made
    /\ lim \in [Logins -> 0..MaxFails + MaxRequests]
    /\ Cardinality(requests) <= MaxRequests /\ now \in 0..MaxNow

Init ==
    /\ scene \in Scenes
    /\ state = [users |-> <<>>, orders |-> <<>>, keys |-> <<>>]
    /\ disk = state /\ requests = {}
    /\ lim = [l \in Logins |-> 0]
    /\ secrets = 0 /\ made = 0 /\ now = 0 /\ faults = 0
    /\ told = {} /\ crossed = FALSE

\* The store.
ByLogin(l) == {u \in DOMAIN users : users[u].login = l}
With(f, x, v) == [y \in DOMAIN f \cup {x} |-> IF y = x THEN v ELSE f[y]]
WithUser(u, rec) == [state EXCEPT !.users = With(@, u, rec)]
WithoutKey(f, gone) == [x \in DOMAIN f \ gone |-> f[x]]
WithoutUser(u) ==
    [state EXCEPT !.users = WithoutKey(@, {u}),
        !.orders = WithoutKey(@, {o \in DOMAIN @ : @[o].user = u})]

\* A mutant: the name is looked for before the lock is taken.
NeverTaken(l) == FALSE
Taken(l) == ByLogin(l) # {}

\* A mutant: the answer does not wait for the file.
AnswerFirst(s, undone, answer) ==
    /\ state' = s /\ told' = told \cup answer
    /\ disk' \in {disk, s} /\ UNCHANGED faults

\* save: the handler answers when the file was written; when it was not, the
\* change stays in memory, or is undone where the handler does so.
Saves(s, undone, answer) ==
    \/ /\ state' = s /\ disk' = s /\ told' = told \cup answer
       /\ UNCHANGED faults
    \/ /\ faults < MaxFaults /\ faults' = faults + 1
       /\ state' = undone
       /\ UNCHANGED <<disk, told>>

\* Devices.  A handler outside the lock keeps a pointer into the array of
\* its account's devices: when an entry before it is cut out in place, it
\* points at the next device.
DeviceLimit(u) ==
    IF u.plan # None THEN Plans[u.plan].devices
    ELSE IF TrialPlans # {} THEN Plans[CHOOSE p \in TrialPlans : TRUE].devices
    ELSE Plans[FirstPlan].devices

Cut(devices, i) == RemoveAt(devices, i)

\* what the pointers of the requests in flight see when entry i of u is cut
AfterCut(reqs, u, i) ==
    {IF r.user = u /\ r.slot \in i..Len(users[u].devices) - 1
     THEN [r EXCEPT !.dev = users[u].devices[r.slot + 1].id] ELSE r
     : r \in reqs}
\* and when the account gets another array
Detached(reqs, u) ==
    {IF r.user = u THEN [r EXCEPT !.slot = 0] ELSE r : r \in reqs}
\* and when device id is appended at place n of the same array
AfterAppend(reqs, u, n, id) ==
    {IF r.user = u /\ r.slot = n THEN [r EXCEPT !.dev = id] ELSE r : r \in reqs}

\* addDevice: at the limit one device is replaced, when the person named one.
\* reqs are the requests that are left.  An array that append filled is copied
\* to a longer one; one read from the file has room.
Full(rec) == Len(rec.devices) >= DeviceLimit(rec)
WithDevice(rec, replaced, pass) ==
    [rec EXCEPT !.devices = Append(IF Full(rec) THEN Cut(@, replaced) ELSE @,
                                   [id |-> made + 1, pass |-> pass])]
AddDevice(reqs, u, rec, replaced) ==
    LET n == Len(rec.devices)
    IN  /\ made < MaxDevices /\ made' = made + 1
        /\ IF Full(rec)
           THEN /\ replaced \in 1..n
                /\ requests' = AfterAppend(AfterCut(reqs, u, replaced), u, n,
                                           made + 1)
           ELSE \/ requests' = AfterAppend(reqs, u, n + 1, made + 1)
                \/ requests' = Detached(reqs, u)

\* Register, sign in, recover.
StartTrial(rec) ==
    LET p == CHOOSE q \in TrialPlans : TRUE
    IN  [rec EXCEPT !.trial = TRUE, !.plan = p,
                    !.expires = now + Plans[p].days]
HasTrial(rec) == TrialPlans # {} /\ ~rec.trial

\* handleRegister: an id is a new one; a registration that could not be saved is
\* taken back.
Register(u, l) ==
    /\ u \notin DOMAIN users \cup DOMAIN disk.users
    /\ {<<"gone", u>>, <<"banned", u>>} \cap told = {}
    /\ ~Taken(l)
    /\ secrets < MaxSecret /\ made < MaxDevices
    /\ LET bare == [login |-> l, pass |-> secrets + 1, plan |-> None,
                    expires |-> 0, trial |-> FALSE, banned |-> FALSE,
                    devices |-> <<[id |-> made + 1, pass |-> secrets + 1]>>]
           rec == IF AutoTrial /\ HasTrial(bare) THEN StartTrial(bare) ELSE bare
       IN  Saves(WithUser(u, rec), state, {})
    /\ secrets' = secrets + 1 /\ made' = made + 1
    /\ UNCHANGED <<scene, requests, lim, now, crossed>>

Wrong(l) == lim' = [lim EXCEPT ![l] = @ + 1]

\* credential: what the login's password is compared with is read under the
\* lock; the comparison itself is not.
LoginBegins(l, given) ==
    /\ "signin" \in scene
    /\ lim[l] < MaxFails /\ Cardinality(requests) < MaxRequests
    /\ \E u \in (IF ByLogin(l) = {} THEN {None} ELSE ByLogin(l)) :
        requests' = requests \cup
            {[kind |-> "login", user |-> u, login |-> l, pass |-> given,
              right |-> u # None /\ users[u].pass = given,
              slot |-> 0, dev |-> 0]}
    /\ UNCHANGED <<scene, state, disk, lim, secrets, made, now, faults, told,
                   crossed>>

\* A mutant: an account that was banned while the password was compared.
LetsIn(rec) == TRUE
Admits(rec) == ~rec.banned
Enters(r) == r.user \in DOMAIN users /\ Admits(users[r.user])

\* handleLogin after credential, finishAuth: the account's password is not
\* compared again.  A device that could not be saved stays in memory.
LoginEnds(r) ==
    /\ r \in requests /\ r.kind = "login"
    /\ UNCHANGED <<scene, secrets, now>>
    /\ \/ /\ ~r.right
          /\ Wrong(r.login)
          /\ requests' = requests \ {r}
          /\ UNCHANGED <<state, disk, made, faults, told, crossed>>
       \/ /\ r.right
          /\ lim' = [lim EXCEPT ![r.login] = 0]
          /\ \/ /\ Enters(r)
                /\ crossed' = (crossed \/ users[r.user].pass # r.pass)
                /\ \E replaced \in 0..Len(users[r.user].devices) :
                    /\ AddDevice(requests \ {r}, r.user, users[r.user], replaced)
                    /\ LET s == WithUser(r.user,
                                WithDevice(users[r.user], replaced, r.pass))
                       IN  Saves(s, s, {})
             \/ /\ \/ ~Enters(r)
                   \/ Enters(r) /\ Full(users[r.user]) /\ "devices" \in scene
                /\ requests' = requests \ {r}
                /\ UNCHANGED <<state, disk, made, faults, told, crossed>>

\* A mutant: the devices of the account stay signed in.
StaySignedIn(devices) == devices
SignedOut(devices) == <<>>

\* handleRecover with the recovery key: a new password and a new key, every
\* device signs in again.
Recover(u) ==
    /\ "signin" \in scene
    /\ u \in DOMAIN users /\ lim[users[u].login] < MaxFails
    /\ Admits(users[u])
    /\ secrets < MaxSecret
    /\ secrets' = secrets + 1
    /\ lim' = [lim EXCEPT ![users[u].login] = 0]
    /\ LET rec == [users[u] EXCEPT !.pass = secrets + 1,
                                   !.devices = SignedOut(@)]
           s == WithUser(u, WithDevice(rec, 0, secrets + 1))
       IN  AddDevice(Detached(requests, u), u, rec, 0) /\ Saves(s, s, {})
    /\ UNCHANGED <<scene, now, crossed>>

\* a recovery key that is not the account's, or the password of no account
Refused(l) ==
    /\ "signin" \in scene
    /\ lim[l] < MaxFails
    /\ Wrong(l)
    /\ UNCHANGED <<scene, state, disk, requests, secrets, made, now, faults,
                   told, crossed>>

\* the window of the wrong answers passes (limiter.go)
WindowPasses(l) ==
    /\ lim[l] > 0
    /\ lim' = [lim EXCEPT ![l] = 0]
    /\ UNCHANGED <<scene, state, disk, requests, secrets, made, now, faults,
                   told, crossed>>

\* The signed-in account.  authed admits a request that comes from a
\* device of an account that is not banned.
Authed(u, i) ==
    u \in DOMAIN users /\ i \in 1..Len(users[u].devices) /\ Admits(users[u])

\* authed saves the state when the device was last seen long ago, whatever
\* else has changed in it; what became of that is not looked at.
Seen(u, i) ==
    /\ Authed(u, i)
    /\ disk # state
    /\ disk' = state
    /\ UNCHANGED <<scene, state, requests, lim, secrets, made, now, faults,
                   told, crossed>>

\* handlePassword and handleDeleteAccount up to where they give up the lock
Begins(kind, u, i, right) ==
    /\ Authed(u, i)
    /\ lim[users[u].login] < MaxFails
    /\ Cardinality(requests) < MaxRequests
    /\ requests' = requests \cup
        {[kind |-> kind, user |-> u, login |-> users[u].login,
          pass |-> users[u].pass, right |-> right,
          slot |-> i, dev |-> users[u].devices[i].id]}
    /\ UNCHANGED <<scene, state, disk, lim, secrets, made, now, faults, told,
                   crossed>>

PasswordBegins(u, i, right) ==
    "password" \in scene /\ Begins("password", u, i, right)
DeleteBegins(u, i, right) ==
    "delete" \in scene /\ Begins("delete", u, i, right)

\* the device that asked is kept, an id being one device's; when it is found no
\* more, all are
KeptBy(r, devices) ==
    LET mine == {i \in DOMAIN devices : devices[i].id = r.dev}
        it == CHOOSE i \in mine : TRUE
    IN  IF mine = {} THEN devices
        ELSE <<[devices[it] EXCEPT !.pass = secrets + 1]>>

\* the account is as the request left it
Undisturbed(r) ==
    /\ users[r.user].pass = r.pass
    /\ \E d \in Range(users[r.user].devices) : d.id = r.dev

\* handlePassword with the lock again.  An account that was removed meanwhile
\* is changed where nobody sees it; with no device left the answer panics
\* after the save.
PasswordEnds(r) ==
    /\ r \in requests /\ r.kind = "password"
    /\ UNCHANGED <<scene, now, made>>
    /\ \/ /\ ~r.right
          /\ Wrong(r.login)
          /\ requests' = requests \ {r}
          /\ UNCHANGED <<state, disk, secrets, faults, told, crossed>>
       \/ /\ r.right
          /\ secrets < MaxSecret /\ secrets' = secrets + 1
          /\ LET here == r.user \in DOMAIN users
                 s == IF here
                      THEN WithUser(r.user, [users[r.user] EXCEPT
                              !.pass = secrets + 1, !.devices = KeptBy(r, @)])
                      ELSE state
             IN  /\ Saves(s, s, {})
                 /\ crossed' = (crossed \/ (here /\ ~Undisturbed(r)))
          /\ requests' = Detached(requests \ {r}, r.user)
          /\ UNCHANGED lim

\* handleDeleteAccount with the lock again
DeleteEnds(r) ==
    /\ r \in requests /\ r.kind = "delete"
    /\ requests' = requests \ {r}
    /\ UNCHANGED <<scene, secrets, made, now, crossed>>
    /\ \/ /\ ~r.right
          /\ Wrong(r.login)
          /\ UNCHANGED <<state, disk, faults, told>>
       \/ /\ r.right
          /\ LET s == WithoutUser(r.user) IN Saves(s, s, {<<"gone", r.user>>})
          /\ UNCHANGED lim

\* handleLogout and handleRemoveDevice: device i asks, device j goes
RemoveDevice(u, i, j) ==
    /\ "devices" \in scene
    /\ Authed(u, i) /\ j \in 1..Len(users[u].devices)
    /\ requests' = AfterCut(requests, u, j)
    /\ LET s == WithUser(u, [users[u] EXCEPT !.devices = Cut(@, j)])
       IN  Saves(s, s, {})
    /\ UNCHANGED <<scene, lim, secrets, made, now, crossed>>

\* Orders and time.
MaxOf(a, b) == IF a > b THEN a ELSE b

\* extend: from the later of now and the current end
Extend(rec, p) ==
    [rec EXCEPT !.expires = MaxOf(now, @) + Plans[p].days, !.plan = p]

Trial(u, i) ==
    /\ "pay" \in scene
    /\ Authed(u, i) /\ HasTrial(users[u])
    /\ LET s == WithUser(u, StartTrial(users[u])) IN Saves(s, s, {})
    /\ UNCHANGED <<scene, requests, lim, secrets, made, now, crossed>>

\* handleCheckout: one open order per plan; asking again returns it. An order's id
\* is a new one.
PendingOf(s, u, p) ==
    {o \in DOMAIN s.orders : s.orders[o].user = u /\ s.orders[o].plan = p
                             /\ s.orders[o].status = "pending"}
Checkout(u, i, p, o) ==
    /\ "pay" \in scene
    /\ Authed(u, i) /\ ~Plans[p].trial
    /\ PendingOf(state, u, p) = {}
    /\ o \notin DOMAIN state.orders /\ o \notin DOMAIN disk.orders
    /\ <<"paid", o>> \notin told
    /\ Saves([state EXCEPT !.orders = With(@, o,
                [user |-> u, plan |-> p, status |-> "pending", credits |-> 0])],
             state, {})
    /\ UNCHANGED <<scene, requests, lim, secrets, made, now, crossed>>

\* A mutant: an order that was paid already is not told from one that was not.
EveryOrder(o) == TRUE
Unpaid(o) == state.orders[o].status # "paid"

\* markPaid: the account gets the plan's days, once.
MarkPaid(o) ==
    LET order == state.orders[o]
    IN  IF Unpaid(o)
        THEN [WithUser(order.user, Extend(users[order.user], order.plan))
              EXCEPT !.orders = With(@, o, [order EXCEPT !.status = "paid",
                                                         !.credits = @ + 1])]
        ELSE state

\* adminPaid: asked again, by a bot that had no answer, it saves again.
AdminPaid(o) ==
    /\ "pay" \in scene
    /\ o \in DOMAIN state.orders /\ state.orders[o].user \in DOMAIN users
    /\ MarkPaid(o).users[state.orders[o].user].expires <= MaxExpires
    /\ <<"paid", o>> \notin told \/ disk # state
    /\ Saves(MarkPaid(o), MarkPaid(o), {<<"paid", o>>})
    /\ UNCHANGED <<scene, requests, lim, secrets, made, now, crossed>>

\* adminGrant by a plan; a grant that was not saved stays in memory too
AdminGrant(u, p) ==
    /\ "pay" \in scene
    /\ u \in DOMAIN users /\ users[u].expires + Plans[p].days <= MaxExpires
    /\ LET s == WithUser(u, Extend(users[u], p)) IN Saves(s, s, {})
    /\ UNCHANGED <<scene, requests, lim, secrets, made, now, crossed>>

DayPasses ==
    /\ "pay" \in scene
    /\ now < MaxNow
    /\ now' = now + 1
    /\ UNCHANGED <<scene, state, disk, requests, lim, secrets, made, faults,
                   told, crossed>>

\* What the owner does to accounts and keys.
AdminBan(u, banned) ==
    /\ "ban" \in scene
    /\ u \in DOMAIN users
    /\ requests' = IF banned THEN Detached(requests, u) ELSE requests
    /\ LET s == WithUser(u, [users[u] EXCEPT !.banned = banned,
                    !.devices = IF banned THEN <<>> ELSE @])
       IN  \/ banned /\ Saves(s, s, {<<"banned", u>>})
           \/ /\ ~banned /\ state' = s /\ told' = told \ {<<"banned", u>>}
              /\ \/ disk' = s /\ UNCHANGED faults
                 \/ /\ faults < MaxFaults /\ faults' = faults + 1
                    /\ UNCHANGED disk
    /\ UNCHANGED <<scene, lim, secrets, made, now, crossed>>

AdminResetPassword(u) ==
    /\ "password" \in scene
    /\ u \in DOMAIN users
    /\ secrets < MaxSecret /\ secrets' = secrets + 1
    /\ requests' = Detached(requests, u)
    /\ lim' = [lim EXCEPT ![users[u].login] = 0]
    /\ LET s == WithUser(u, [users[u] EXCEPT !.pass = secrets + 1,
                                             !.devices = SignedOut(@)])
       IN  Saves(s, s, {})
    /\ UNCHANGED <<scene, made, now, crossed>>

AdminDeleteUser(u) ==
    /\ "delete" \in scene
    /\ u \in DOMAIN users
    /\ LET s == WithoutUser(u) IN Saves(s, s, {<<"gone", u>>})
    /\ UNCHANGED <<scene, requests, lim, secrets, made, now, crossed>>

\* adminAddKey is taken back when it could not be saved; adminExtendKey also
\* lifts a revocation, adminRevokeKey is final until then.
AdminAddKey(k) ==
    /\ "keys" \in scene
    /\ k \notin DOMAIN state.keys /\ k \notin DOMAIN disk.keys
    /\ \E expires \in {0, now + 1} :
        Saves([state EXCEPT !.keys =
                With(@, k, [expires |-> expires, revoked |-> FALSE])], state, {})
    /\ UNCHANGED <<scene, requests, lim, secrets, made, now, crossed>>

AdminExtendKey(k) ==
    /\ "keys" \in scene
    /\ k \in DOMAIN state.keys /\ state.keys[k].expires < MaxExpires
    /\ LET s == [state EXCEPT !.keys = With(@, k,
                    [expires |-> MaxOf(now, @[k].expires) + 1, revoked |-> FALSE])]
       IN  /\ state' = s /\ told' = told \ {<<"revoked", k>>}
           /\ \/ disk' = s /\ UNCHANGED faults
              \/ /\ faults < MaxFaults /\ faults' = faults + 1
                 /\ UNCHANGED disk
    /\ UNCHANGED <<scene, requests, lim, secrets, made, now, crossed>>

AdminRevokeKey(k) ==
    /\ "keys" \in scene
    /\ k \in DOMAIN state.keys
    /\ LET s == [state EXCEPT !.keys = With(@, k, [@[k] EXCEPT !.revoked = TRUE])]
       IN  Saves(s, s, {<<"revoked", k>>})
    /\ UNCHANGED <<scene, requests, lim, secrets, made, now, crossed>>

\* The service dies and starts again: openStore reads the file, the limits
\* and the requests are gone.
Restart ==
    /\ faults < MaxFaults
    /\ faults' = faults + 1
    /\ state' = disk
    /\ requests' = {} /\ lim' = [l \in Logins |-> 0]
    /\ UNCHANGED <<scene, disk, secrets, made, now, told, crossed>>

Next ==
    \/ \E u \in Accounts, l \in Logins : Register(u, l)
    \/ \E l \in Logins : Refused(l) \/ WindowPasses(l)
    \/ \E l \in Logins, p \in 1..secrets : LoginBegins(l, p)
    \/ \E u \in Accounts, i \in 1..MaxDevices :
        \/ Seen(u, i) \/ Trial(u, i)
        \/ \E right \in BOOLEAN :
            PasswordBegins(u, i, right) \/ DeleteBegins(u, i, right)
        \/ \E j \in 1..MaxDevices : RemoveDevice(u, i, j)
        \/ \E p \in DOMAIN Plans, o \in OrderIds : Checkout(u, i, p, o)
    \/ \E r \in requests : LoginEnds(r) \/ PasswordEnds(r) \/ DeleteEnds(r)
    \/ \E u \in Accounts :
        \/ Recover(u) \/ AdminResetPassword(u) \/ AdminDeleteUser(u)
        \/ \E b \in BOOLEAN : AdminBan(u, b)
        \/ \E p \in DOMAIN Plans : AdminGrant(u, p)
    \/ \E o \in OrderIds : AdminPaid(o)
    \/ \E k \in KeyIds :
        AdminAddKey(k) \/ AdminExtendKey(k) \/ AdminRevokeKey(k)
    \/ DayPasses \/ Restart

Spec == Init /\ [][Next]_accountVars

\* Properties.
\* A login names one account, in memory and in the file (userByLogin).
LoginsUnique ==
    \A s \in {state, disk} : \A u, v \in DOMAIN s.users :
        s.users[u].login = s.users[v].login => u = v

\* An order gives its plan's days once, however often its payment is told,
\* however the saves and the restarts fell.
PaidOnce ==
    \A s \in {state, disk} : \A o \in DOMAIN s.orders :
        /\ s.orders[o].credits = (IF s.orders[o].status = "paid" THEN 1 ELSE 0)
        /\ s.orders[o].user \in DOMAIN s.users

\* What the owner was told is done survives a restart: a payment, a ban, a
\* revoked key, an account that is gone.
AnswersKept ==
    \A a \in told :
        \/ /\ a[1] = "paid"
           /\ \/ a[2] \notin DOMAIN disk.orders
              \/ disk.orders[a[2]].status = "paid"
        \/ /\ a[1] = "banned"
           /\ a[2] \in DOMAIN disk.users => disk.users[a[2]].banned
        \/ a[1] = "revoked" /\ disk.keys[a[2]].revoked
        \/ a[1] = "gone" /\ a[2] \notin DOMAIN disk.users

\* A banned account is signed in nowhere, whatever was in flight when it was
\* banned (adminBan).
BannedOut ==
    \A s \in {state, disk} : \A u \in DOMAIN s.users :
        s.users[u].banned => s.users[u].devices = <<>>

\* Every device that is signed in knew the account's password, or was there
\* when it was changed from that device; unless a login or a change went on
\* with an account that had changed since it read it.
SameSecret ==
    ~crossed => \A u \in DOMAIN users : \A d \in Range(users[u].devices) :
                    d.pass = users[u].pass

AccountsKept ==
    LoginsUnique /\ PaidOnce /\ AnswersKept /\ BannedOut /\ SameSecret

-----------------------------------------------------------------------------
\* The invariant that makes them inductive: what is in memory and what is
\* in the file are each in order, with p passwords chosen, m devices
\* signed in, c whether somebody went on with what he had read before, and
\* the answers t given.
Partly(f, S, T) ==
    DOMAIN f \subseteq S /\ f = [x \in DOMAIN f |-> f[x]] /\ \A x \in DOMAIN f : f[x] \in T
Order == [user : Accounts, plan : DOMAIN Plans, status : {"pending", "paid"}, credits : {0, 1}]
Key == [expires : Nat, revoked : BOOLEAN]
Stored(s) ==
    /\ s = [users |-> s.users, orders |-> s.orders, keys |-> s.keys]
    /\ Partly(s.users, Accounts, User) /\ Partly(s.orders, OrderIds, Order) /\ Partly(s.keys, KeyIds, Key)

AccountOk(rec, p, m, c) ==
    /\ rec \in User
    /\ rec.pass \in 1..p
    /\ \A i \in DOMAIN rec.devices : rec.devices[i].id \in 1..m
    /\ rec.banned => rec.devices = <<>>
    /\ ~c => \A i \in DOMAIN rec.devices : rec.devices[i].pass = rec.pass
OrderOk(o, us) == o.credits = (IF o.status = "paid" THEN 1 ELSE 0) /\ o.user \in us
KeptIn(s, a) ==
    /\ a[1] = "paid" /\ a[2] \in DOMAIN s.orders => s.orders[a[2]].status = "paid"
    /\ a[1] = "banned" /\ a[2] \in DOMAIN s.users => s.users[a[2]].banned
    /\ a[1] = "revoked" => a[2] \in DOMAIN s.keys /\ s.keys[a[2]].revoked
    /\ a[1] = "gone" => a[2] \notin DOMAIN s.users
Sound(s, p, m, c, t) ==
    /\ Stored(s)
    /\ \A u \in DOMAIN s.users : AccountOk(s.users[u], p, m, c)
    /\ \A u, v \in DOMAIN s.users : s.users[u].login = s.users[v].login => u = v
    /\ \A o \in DOMAIN s.orders : OrderOk(s.orders[o], DOMAIN s.users)
    /\ \A a \in t : KeptIn(s, a)

Told == ({"paid"} \X OrderIds) \cup ({"banned", "gone"} \X Accounts) \cup ({"revoked"} \X KeyIds)
Counts ==
    /\ scene \in Scenes /\ secrets \in 0..MaxSecret /\ made \in 0..MaxDevices
    /\ now \in 0..MaxNow /\ faults \in 0..MaxFaults
    /\ told \subseteq Told /\ crossed \in BOOLEAN

\* Wrong answers are counted after the comparison: there may be one more of each
\* request that is under way.
Request ==
    {r \in [kind : {"login", "password", "delete"}, user : Accounts \cup {None}, login : Logins,
            pass : Nat, right : BOOLEAN, slot : Nat, dev : Nat] :
        r.kind = "login" \/ r.user \in Accounts}
Of(reqs, l) == {r \in reqs : r.login = l}
Within(reqs, fails) ==
    /\ reqs \subseteq Request /\ IsFiniteSet(reqs) /\ Cardinality(reqs) <= MaxRequests
    /\ fails \in [Logins -> Nat]
    /\ \A l \in Logins : fails[l] + Cardinality(Of(reqs, l)) <= MaxFails + MaxRequests

IInv ==
    /\ Counts /\ Within(requests, lim)
    /\ Sound(state, secrets, made, crossed, told)
    /\ Sound(disk, secrets, made, crossed, told)
=============================================================================
