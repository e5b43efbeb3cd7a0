---------------------------- MODULE CliAuthProofs ---------------------------
(***************************************************************************)
(* The theorems about the device-code login, for any number of logins,     *)
(* users and tokens.                                                       *)
(***************************************************************************)
EXTENDS CliAuth, TLAPS

(***************************************************************************)
(* The inductive invariant.  A token is in one place at a time until it is *)
(* handed over: in one record.  Wherever it is, record, reply or client,   *)
(* it comes with the e-mail it is stored under, unless it has ended.       *)
(***************************************************************************)
Good(k, email) == k \in minted /\ (k \in ended \/ store[k] = email)

RecordsGood ==
    \A f \in Flow : device[f] # Null /\ device[f].token # Null =>
        /\ Good(device[f].token, device[f].email)
        /\ handed[device[f].token] = 0

RepliesGood ==
    \A f \in Flow : reply[f] # Null /\ reply[f].token # Null =>
        Good(reply[f].token, reply[f].email)

ClientsGood ==
    \A f \in Flow : cli[f].state = "saved" => Good(cli[f].token, cli[f].email)

OneRecord ==
    \A f, g \in Flow :
        device[f] # Null /\ device[g] # Null /\ device[f].token # Null
        /\ device[f].token = device[g].token => f = g

UnmintedUnhanded == \A k \in Token : k \notin minted => handed[k] = 0

\* Who says that a code has run out is right.
LateIsLate ==
    \A f \in Flow :
        /\ f \in late \/ cli[f].state = "polling" => device[f] # Null
        /\ device[f] # Null /\ device[f].status = "expired" => f \in late
        /\ reply[f] # Null /\ reply[f].status = "expired" => f \in late
        /\ cli[f].state \in {"expired", "timedout"} => f \in late

CliInv == /\ TypeOK /\ HandedOnce
          /\ RecordsGood /\ RepliesGood /\ ClientsGood
          /\ OneRecord /\ UnmintedUnhanded /\ LateIsLate

\* The invariant holds before any login.
LEMMA CliInvInit == Init => CliInv
<1> SUFFICES ASSUME Init PROVE CliInv
  OBVIOUS
<1>1. TypeOK
  <2>1. cli \in [Flow -> [state : {"idle", "polling", "saved", "denied",
                                  "expired", "timedout", "failed"},
                          token : Token \cup {Null}, email : Email \cup {Null}]]
    BY DEF Init, Client
  <2> QED BY <2>1 DEF Init, TypeOK
<1>2. HandedOnce /\ UnmintedUnhanded
  BY DEF Init, HandedOnce, UnmintedUnhanded
<1>3. RecordsGood /\ RepliesGood /\ ClientsGood /\ OneRecord /\ LateIsLate
  BY DEF Init, Client, RecordsGood, RepliesGood, ClientsGood, OneRecord, LateIsLate
<1> QED BY <1>1, <1>2, <1>3 DEF CliInv

-----------------------------------------------------------------------------
(***************************************************************************)
(* One lemma for each action.                                              *)
(***************************************************************************)
\* Good is only lost by ending.
LEMMA GoodStays ==
    ASSUME minted \subseteq minted', ended \subseteq ended',
           \A k \in minted : store'[k] = store[k] \/ k \in ended'
    PROVE  \A k, email : Good(k, email) => Good(k, email)'
BY DEF Good

\* /start stores a new pending record, or one put of the two (cliAuth.ts:78-96).
LEMMA StartInv == CliInv /\ (\E f \in Flow : Start(f)) => CliInv'
<1> SUFFICES ASSUME CliInv, NEW f \in Flow, Start(f) PROVE CliInv'
  OBVIOUS
<1>1. Pending \in Record /\ Pending # Null /\ Pending.token = Null
      /\ Pending.status # "expired"
  BY CliAuthAssumption DEF Pending, Record
<1>2. /\ device \in [Flow -> Record \cup {Null}]
      /\ device' = [device EXCEPT ![f] = Pending]
      /\ UNCHANGED <<store, late, reply, minted, handed, ended>>
  BY DEF CliInv, TypeOK, Start, history
<1>3. PICK state \in {"polling", "failed"} :
          cli' = [cli EXCEPT ![f] = Client(state)]
  BY DEF Start
<1>4. TypeOK'
  <2>1. cli' \in [Flow -> [state : {"idle", "polling", "saved", "denied",
                                   "expired", "timedout", "failed"},
                           token : Token \cup {Null}, email : Email \cup {Null}]]
    BY <1>3 DEF CliInv, TypeOK, Client
  <2>2. index' \subseteq {g \in Flow : device'[g] # Null}
    BY <1>1, <1>2 DEF CliInv, TypeOK, Start
  <2> QED BY <1>1, <1>2, <2>1, <2>2 DEF CliInv, TypeOK
<1>5. HandedOnce' /\ UnmintedUnhanded'
  BY <1>2 DEF CliInv, HandedOnce, UnmintedUnhanded
<1>6. RecordsGood' /\ OneRecord'
  BY <1>1, <1>2 DEF CliInv, RecordsGood, OneRecord, Good
<1>7. RepliesGood'
  BY <1>2 DEF CliInv, RepliesGood, Good
<1>8. ClientsGood' /\ LateIsLate'
  <2>1. cli \in [Flow -> [state : {"idle", "polling", "saved", "denied",
                                   "expired", "timedout", "failed"},
                           token : Token \cup {Null}, email : Email \cup {Null}]]
    BY DEF CliInv, TypeOK
  <2>2. cli'[f].state \in {"polling", "failed"}
    BY <1>3, <2>1 DEF Client
  <2>3. \A g \in Flow : g # f => cli'[g] = cli[g]
    BY <1>3, <2>1
  <2>4. ClientsGood'
    BY <1>2, <2>2, <2>3 DEF CliInv, ClientsGood, Good
  <2>5. LateIsLate'
    BY <1>1, <1>2, <2>2, <2>3 DEF CliInv, LateIsLate
  <2> QED BY <2>4, <2>5
<1> QED BY <1>4, <1>5, <1>6, <1>7, <1>8 DEF CliInv

\* A record whose status alone is changed, to one that is right.
LEMMA StatusInv ==
    ASSUME CliInv, NEW f \in Flow, device[f] # Null,
           NEW x \in {"denied", "expired"}, x = "expired" => f \in late,
           device' = [device EXCEPT ![f].status = x],
           UNCHANGED <<index, store, late, cli, reply, history>>
    PROVE  CliInv'
<1>1. /\ device \in [Flow -> Record \cup {Null}] /\ device[f] \in Record
      /\ UNCHANGED <<minted, handed, ended>>
  BY DEF CliInv, TypeOK, history
<1>2. /\ device'[f] \in Record /\ device'[f] # Null
      /\ device'[f].token = device[f].token /\ device'[f].email = device[f].email
      /\ device'[f].status = x
      /\ \A g \in Flow : g # f => device'[g] = device[g]
  BY <1>1, CliAuthAssumption DEF Record
<1>3. TypeOK'
  BY <1>1, <1>2 DEF CliInv, TypeOK
<1>4. HandedOnce' /\ UnmintedUnhanded'
  BY <1>1 DEF CliInv, HandedOnce, UnmintedUnhanded
<1>5. RecordsGood'
  BY <1>1, <1>2 DEF CliInv, RecordsGood, Good
<1>6. OneRecord'
  BY <1>1, <1>2 DEF CliInv, OneRecord
<1>7. RepliesGood' /\ ClientsGood'
  BY <1>1 DEF CliInv, RepliesGood, ClientsGood, Good
<1>8. LateIsLate'
  BY <1>1, <1>2 DEF CliInv, LateIsLate
<1> QED BY <1>3, <1>4, <1>5, <1>6, <1>7, <1>8 DEF CliInv

\* A denial, or an approval that comes too late, only changes a status.
LEMMA DeniesInv ==
    CliInv /\ (\E f \in Flow : ApproveLate(f) \/ Deny(f)) => CliInv'
<1> SUFFICES ASSUME CliInv, NEW f \in Flow, ApproveLate(f) \/ Deny(f)
             PROVE  CliInv'
  OBVIOUS
<1>1. CASE ApproveLate(f)
  BY <1>1, StatusInv DEF ApproveLate, Known
<1>2. CASE Deny(f)
  BY <1>2, StatusInv DEF Deny, Known
<1> QED BY <1>1, <1>2

\* /approve mints a token into one record, whole or cut short by a crash.
LEMMA ApproveInv ==
    CliInv /\ (\E f \in Flow, email \in Email, k \in Token : Approve(f, email, k))
        => CliInv'
<1> SUFFICES ASSUME CliInv, NEW f \in Flow, NEW email \in Email, NEW k \in Token,
                    Approve(f, email, k)
             PROVE  CliInv'
  OBVIOUS
<1> DEFINE rec == [status |-> "approved", email |-> email, token |-> k]
<1>1. /\ rec \in Record /\ rec # Null /\ rec.token = k /\ rec.email = email
      /\ rec.status = "approved" /\ k # Null
  BY CliAuthAssumption DEF Record
<1>2. /\ device \in [Flow -> Record \cup {Null}] /\ device[f] # Null
      /\ store \in [Token -> Email \cup {Null}]
      /\ minted' = minted \cup {k} /\ k \notin minted
      /\ device' = [device EXCEPT ![f] = rec]
      /\ UNCHANGED <<index, late, cli, reply, handed>>
  BY DEF CliInv, TypeOK, Approve, Known
<1> HIDE DEF rec
<1>3. \/ store' = [store EXCEPT ![k] = email] /\ UNCHANGED ended
      \/ ended' = ended \cup {k} /\ UNCHANGED store
  BY DEF Approve
<1>4. /\ device'[f] = rec
      /\ \A g \in Flow : g # f => device'[g] = device[g]
  BY <1>2
<1>5. /\ Good(k, email)'
      /\ \A j, e : Good(j, e) => Good(j, e)' /\ j # k
  <2>1. \A j \in minted : j # k /\ j \in Token
    BY <1>2 DEF CliInv, TypeOK
  <2> QED BY <1>2, <1>3, <2>1 DEF Good
<1>6. TypeOK'
  <2>1. /\ store' \in [Token -> Email \cup {Null}]
        /\ {j \in Token : store'[j] # Null} \subseteq minted'
        /\ ended' \subseteq minted'
    BY <1>2, <1>3 DEF CliInv, TypeOK
  <2>2. index' \subseteq {g \in Flow : device'[g] # Null}
    BY <1>1, <1>2, <1>4 DEF CliInv, TypeOK
  <2> QED BY <1>1, <1>2, <2>1, <2>2 DEF CliInv, TypeOK
<1>7. HandedOnce' /\ UnmintedUnhanded'
  BY <1>2 DEF CliInv, HandedOnce, UnmintedUnhanded
<1>8. RecordsGood'
  <2>1. handed[k] = 0
    BY <1>2 DEF CliInv, UnmintedUnhanded
  <2> QED BY <1>1, <1>2, <1>4, <1>5, <2>1 DEF CliInv, RecordsGood
<1>9. OneRecord'
  <2>1. \A g \in Flow : device[g] # Null /\ device[g].token # Null => device[g].token # k
    BY <1>5 DEF CliInv, RecordsGood
  <2> QED BY <1>1, <1>4, <2>1 DEF CliInv, OneRecord
<1>10. RepliesGood' /\ ClientsGood'
  BY <1>2, <1>5 DEF CliInv, RepliesGood, ClientsGood
<1>11. LateIsLate'
  BY <1>1, <1>2, <1>4 DEF CliInv, LateIsLate
<1> QED BY <1>6, <1>7, <1>8, <1>9, <1>10, <1>11 DEF CliInv

\* /poll hands the token of a record over, and clears it there.
LEMMA PollInv == CliInv /\ (\E f \in Flow : Poll(f)) => CliInv'
<1> SUFFICES ASSUME CliInv, NEW f \in Flow, Poll(f) PROVE CliInv'
  OBVIOUS
<1> DEFINE rec == Looked(f)
<1>1. /\ device \in [Flow -> Record \cup {Null}] /\ device[f] \in Record
      /\ reply \in [Flow -> Record \cup {Null}]
      /\ handed \in [Token -> Nat]
      /\ device[f] # Null
      /\ UNCHANGED <<index, store, late, cli, minted, ended>>
  BY DEF CliInv, TypeOK, LateIsLate, Poll
<1>2. /\ rec \in Record
      /\ rec.token = device[f].token /\ rec.email = device[f].email
      /\ rec.status = "expired" => f \in late
  BY <1>1 DEF Looked, Record, CliInv, LateIsLate
<1>3. \/ /\ rec.token # Null
         /\ device' = [device EXCEPT ![f] = [rec EXCEPT !.token = Null]]
         /\ reply' = [reply EXCEPT ![f] = rec]
         /\ handed' = [handed EXCEPT ![rec.token] = @ + 1]
      \/ /\ device' = [device EXCEPT ![f] = rec]
         /\ reply' = [reply EXCEPT ![f] = [rec EXCEPT !.token = Null]]
         /\ UNCHANGED handed
  BY DEF Poll
<1> HIDE DEF rec
<1>4. /\ rec # Null
      /\ [rec EXCEPT !.token = Null] \in Record
      /\ [rec EXCEPT !.token = Null] # Null
      /\ [rec EXCEPT !.token = Null].token = Null
      /\ [rec EXCEPT !.token = Null].status = rec.status
  BY <1>2, CliAuthAssumption DEF Record
<1>5. CASE /\ rec.token # Null
           /\ device' = [device EXCEPT ![f] = [rec EXCEPT !.token = Null]]
           /\ reply' = [reply EXCEPT ![f] = rec]
           /\ handed' = [handed EXCEPT ![rec.token] = @ + 1]
  <2> DEFINE k == rec.token
             spent == [rec EXCEPT !.token = Null]
  <2>1. k \in Token /\ k \in minted /\ handed[k] = 0 /\ Good(k, rec.email)
    BY <1>1, <1>2, <1>5 DEF CliInv, RecordsGood, Good, TypeOK
  <2>2. /\ device'[f] = spent /\ reply'[f] = rec
        /\ \A g \in Flow : g # f => device'[g] = device[g] /\ reply'[g] = reply[g]
        /\ handed'[k] = 1
        /\ \A j \in Token : j # k => handed'[j] = handed[j]
    BY <1>1, <1>5, <2>1
  <2>3. /\ spent \in Record /\ spent # Null /\ spent.token = Null
        /\ spent.status = rec.status
    BY <1>4
  <2> HIDE DEF k, spent
  <2>4. TypeOK'
    <3>1. handed' \in [Token -> Nat]
      BY <1>1, <1>5, <2>1 DEF k
    <3>2. device' \in [Flow -> Record \cup {Null}]
      BY <1>1, <1>5, <2>3 DEF spent
    <3>3. reply' \in [Flow -> Record \cup {Null}]
      BY <1>1, <1>2, <1>5
    <3>4. index' \subseteq {g \in Flow : device'[g] # Null}
      BY <1>1, <2>2, <2>3 DEF CliInv, TypeOK
    <3> QED BY <1>1, <3>1, <3>2, <3>3, <3>4 DEF CliInv, TypeOK
  <2>5. HandedOnce' /\ UnmintedUnhanded'
    BY <1>1, <2>1, <2>2 DEF CliInv, HandedOnce, UnmintedUnhanded
  <2>6. RecordsGood'
    <3>1. ASSUME NEW g \in Flow, g # f, device[g] # Null, device[g].token # Null
          PROVE  device[g].token \in Token /\ device[g].token # k
      BY <1>1, <1>2, <2>1, <3>1 DEF CliInv, OneRecord, TypeOK, Record, k
    <3> QED BY <1>1, <2>2, <2>3, <3>1 DEF CliInv, RecordsGood, Good
  <2>7. OneRecord'
    BY <2>2, <2>3 DEF CliInv, OneRecord
  <2>8. RepliesGood'
    BY <1>1, <2>1, <2>2 DEF CliInv, RepliesGood, Good, k
  <2>9. ClientsGood'
    BY <1>1 DEF CliInv, ClientsGood, Good
  <2>10. LateIsLate'
    BY <1>1, <1>2, <2>2, <2>3 DEF CliInv, LateIsLate
  <2> QED BY <2>4, <2>5, <2>6, <2>7, <2>8, <2>9, <2>10 DEF CliInv
<1>6. CASE /\ device' = [device EXCEPT ![f] = rec]
           /\ reply' = [reply EXCEPT ![f] = [rec EXCEPT !.token = Null]]
           /\ UNCHANGED handed
  <2> DEFINE bare == [rec EXCEPT !.token = Null]
  <2>1. /\ bare \in Record /\ bare # Null /\ bare.token = Null
        /\ bare.status = rec.status
    BY <1>4
  <2>2. /\ device'[f] = rec /\ reply'[f] = bare
        /\ \A g \in Flow : g # f => device'[g] = device[g] /\ reply'[g] = reply[g]
    BY <1>1, <1>6
  <2>3. TypeOK'
    <3>1. device' \in [Flow -> Record \cup {Null}]
      BY <1>1, <1>2, <1>6
    <3>2. reply' \in [Flow -> Record \cup {Null}]
      BY <1>1, <1>6, <2>1
    <3>3. index' \subseteq {g \in Flow : device'[g] # Null}
      BY <1>1, <1>4, <2>2 DEF CliInv, TypeOK
    <3> QED BY <1>1, <1>6, <3>1, <3>2, <3>3 DEF CliInv, TypeOK
  <2> HIDE DEF bare
  <2>4. HandedOnce' /\ UnmintedUnhanded'
    BY <1>1, <1>6 DEF CliInv, HandedOnce, UnmintedUnhanded
  <2>5. RecordsGood'
    BY <1>1, <1>2, <1>6, <2>2 DEF CliInv, RecordsGood, Good
  <2>6. OneRecord'
    BY <1>1, <1>2, <2>2 DEF CliInv, OneRecord
  <2>7. RepliesGood'
    BY <1>1, <2>1, <2>2 DEF CliInv, RepliesGood, Good
  <2>8. ClientsGood'
    BY <1>1 DEF CliInv, ClientsGood, Good
  <2>9. LateIsLate'
    BY <1>1, <1>2, <1>4, <2>1, <2>2 DEF CliInv, LateIsLate
  <2> QED BY <2>3, <2>4, <2>5, <2>6, <2>7, <2>8, <2>9 DEF CliInv
<1> QED BY <1>3, <1>5, <1>6

\* A step of the client, which takes no reply or one that is there.
LEMMA ClientInv ==
    ASSUME CliInv, NEW f \in Flow,
           cli' = [cli EXCEPT ![f] = cli'[f]],
           cli'[f] \in [state : {"idle", "polling", "saved", "denied", "expired",
                                 "timedout", "failed"},
                        token : Token \cup {Null}, email : Email \cup {Null}],
           cli'[f].state = "saved" => Good(cli'[f].token, cli'[f].email),
           cli'[f].state = "polling" => cli[f].state = "polling",
           cli'[f].state \in {"expired", "timedout"} => f \in late,
           reply' \in {reply, [reply EXCEPT ![f] = Null]},
           UNCHANGED <<device, index, store, late, history>>
    PROVE  CliInv'
<1>1. /\ cli \in [Flow -> [state : {"idle", "polling", "saved", "denied",
                                   "expired", "timedout", "failed"},
                           token : Token \cup {Null}, email : Email \cup {Null}]]
      /\ reply \in [Flow -> Record \cup {Null}]
      /\ UNCHANGED <<minted, handed, ended>>
  BY DEF CliInv, TypeOK, history
<1>2. \A g \in Flow : /\ g # f => cli'[g] = cli[g]
                      /\ reply'[g] \in {reply[g], Null}
  BY <1>1
<1>3. TypeOK'
  <2>1. cli' \in [Flow -> [state : {"idle", "polling", "saved", "denied",
                                   "expired", "timedout", "failed"},
                           token : Token \cup {Null}, email : Email \cup {Null}]]
    BY <1>1
  <2>2. reply' \in [Flow -> Record \cup {Null}]
    BY <1>1
  <2> QED BY <1>1, <2>1, <2>2 DEF CliInv, TypeOK
<1>4. HandedOnce' /\ UnmintedUnhanded' /\ OneRecord'
  BY <1>1 DEF CliInv, HandedOnce, UnmintedUnhanded, OneRecord
<1>5. RecordsGood'
  BY <1>1 DEF CliInv, RecordsGood, Good
<1>6. RepliesGood'
  BY <1>1, <1>2 DEF CliInv, RepliesGood, Good
<1>7. ClientsGood'
  BY <1>1, <1>2 DEF CliInv, ClientsGood, Good
<1>8. LateIsLate'
  BY <1>1, <1>2 DEF CliInv, LateIsLate
<1> QED BY <1>3, <1>4, <1>5, <1>6, <1>7, <1>8 DEF CliInv

\* The client takes an answer, loses it, or gives up at its deadline.
LEMMA PollEndsInv ==
    CliInv /\ (\E f \in Flow : PollAnswered(f) \/ PollLost(f) \/ TimesOut(f))
        => CliInv'
<1> SUFFICES ASSUME CliInv, NEW f \in Flow,
                    PollAnswered(f) \/ PollLost(f) \/ TimesOut(f)
             PROVE  CliInv'
  OBVIOUS
<1>1. /\ cli \in [Flow -> [state : {"idle", "polling", "saved", "denied",
                                   "expired", "timedout", "failed"},
                           token : Token \cup {Null}, email : Email \cup {Null}]]
      /\ reply[f] \in Record \cup {Null}
      /\ cli[f].state = "saved" => Good(cli[f].token, cli[f].email)
      /\ cli[f].state \in {"expired", "timedout"} => f \in late
  BY DEF CliInv, TypeOK, ClientsGood, LateIsLate
<1>2. CASE cli' = cli /\ (PollAnswered(f) \/ PollLost(f))
  <2>1. /\ reply' \in {reply, [reply EXCEPT ![f] = Null]}
        /\ UNCHANGED <<device, index, store, late, history>>
    BY <1>2 DEF PollAnswered, PollLost
  <2>2. cli' = [cli EXCEPT ![f] = cli'[f]] /\ cli'[f] = cli[f]
    BY <1>1, <1>2
  <2> QED BY <1>1, <2>1, <2>2, ClientInv
<1>3. CASE cli' # cli /\ PollAnswered(f)
  <2> DEFINE r == reply[f]
  <2>1. /\ reply' = [reply EXCEPT ![f] = Null]
        /\ UNCHANGED <<device, index, store, late, history>>
        /\ r \in Record /\ r # Null
        /\ \/ /\ r.token # Null
              /\ cli' = [cli EXCEPT ![f] = [state |-> "saved", token |-> r.token,
                                            email |-> r.email]]
           \/ /\ r.status \in {"denied", "expired"}
              /\ cli' = [cli EXCEPT ![f] = Client(r.status)]
    BY <1>1, <1>3 DEF PollAnswered
  <2>2. cli' = [cli EXCEPT ![f] = cli'[f]]
    BY <1>1, <2>1
  <2>3. /\ r.token # Null => Good(r.token, r.email)
        /\ r.status = "expired" => f \in late
    BY <2>1 DEF CliInv, RepliesGood, LateIsLate
  <2>4. CASE /\ r.token # Null
             /\ cli'[f] = [state |-> "saved", token |-> r.token, email |-> r.email]
    <3>1. cli'[f] \in [state : {"idle", "polling", "saved", "denied", "expired",
                                "timedout", "failed"},
                       token : Token \cup {Null}, email : Email \cup {Null}]
      BY <2>1, <2>4 DEF Record
    <3>2. /\ cli'[f].state = "saved" /\ cli'[f].token = r.token
          /\ cli'[f].email = r.email
      BY <2>4
    <3> QED BY <2>1, <2>2, <2>3, <2>4, <3>1, <3>2, ClientInv
  <2>5. CASE /\ r.status \in {"denied", "expired"}
             /\ cli'[f] = [state |-> r.status, token |-> Null, email |-> Null]
    <3>1. cli'[f] \in [state : {"idle", "polling", "saved", "denied", "expired",
                                "timedout", "failed"},
                       token : Token \cup {Null}, email : Email \cup {Null}]
      BY <2>5
    <3>2. /\ cli'[f].state \in {"denied", "expired"}
          /\ cli'[f].state = "expired" => f \in late
      BY <2>3, <2>5
    <3> QED BY <2>1, <2>2, <3>1, <3>2, ClientInv
  <2>6. \/ /\ r.token # Null
           /\ cli'[f] = [state |-> "saved", token |-> r.token, email |-> r.email]
        \/ /\ r.status \in {"denied", "expired"}
           /\ cli'[f] = [state |-> r.status, token |-> Null, email |-> Null]
    BY <1>1, <2>1 DEF Client
  <2> QED BY <2>4, <2>5, <2>6
<1>4. CASE TimesOut(f)
  <2>1. /\ cli'[f] = [state |-> "timedout", token |-> Null, email |-> Null]
        /\ cli' = [cli EXCEPT ![f] = cli'[f]]
        /\ f \in late
        /\ UNCHANGED <<device, index, store, late, reply, history>>
    BY <1>1, <1>4 DEF TimesOut, Client
  <2> QED BY <2>1, ClientInv
<1> QED BY <1>2, <1>3, <1>4 DEF PollLost

\* A token that is revoked, or found too old, is ended.
LEMMA EndsInv ==
    CliInv /\ (\E k \in Token : VerifyDrops(k) \/ Revoke(k)) => CliInv'
<1> SUFFICES ASSUME CliInv, NEW k \in Token, VerifyDrops(k) \/ Revoke(k)
             PROVE  CliInv'
  OBVIOUS
<1>1. /\ store \in [Token -> Email \cup {Null}]
      /\ k \in minted
      /\ store' = [store EXCEPT ![k] = Null]
      /\ ended' = ended \cup {k}
      /\ UNCHANGED <<device, index, late, cli, reply, minted, handed>>
  BY DEF CliInv, TypeOK, VerifyDrops, Revoke
<1>2. \A j, email : Good(j, email) => Good(j, email)'
  <2>1. \A j \in minted : j \in Token
    BY DEF CliInv, TypeOK
  <2> QED BY <1>1, <2>1 DEF Good
<1>3. TypeOK'
  BY <1>1 DEF CliInv, TypeOK
<1>4. HandedOnce' /\ UnmintedUnhanded' /\ OneRecord' /\ LateIsLate'
  BY <1>1 DEF CliInv, HandedOnce, UnmintedUnhanded, OneRecord, LateIsLate
<1>5. RecordsGood' /\ RepliesGood' /\ ClientsGood'
  BY <1>1, <1>2 DEF CliInv, RecordsGood, RepliesGood, ClientsGood
<1> QED BY <1>3, <1>4, <1>5 DEF CliInv

\* Time alone disturbs nothing.
LEMMA SameGood ==
    ASSUME CliInv, UNCHANGED <<device, index, store, cli, reply, history>>,
           late \subseteq late', late' \subseteq {f \in Flow : device[f] # Null}
    PROVE  CliInv'
<1>1. UNCHANGED <<device, index, store, cli, reply, minted, handed, ended>>
  BY DEF history
<1>2. TypeOK'
  BY <1>1 DEF CliInv, TypeOK
<1>3. HandedOnce' /\ UnmintedUnhanded' /\ OneRecord'
  BY <1>1 DEF CliInv, HandedOnce, UnmintedUnhanded, OneRecord
<1>4. RecordsGood' /\ RepliesGood' /\ ClientsGood'
  BY <1>1 DEF CliInv, RecordsGood, RepliesGood, ClientsGood, Good
<1>5. LateIsLate'
  BY <1>1 DEF CliInv, LateIsLate
<1> QED BY <1>2, <1>3, <1>4, <1>5 DEF CliInv

\* expiresAt passes for a code that was issued.
LEMMA CodeExpiresInv == CliInv /\ (\E f \in Flow : CodeExpires(f)) => CliInv'
<1> SUFFICES ASSUME CliInv, NEW f \in Flow, CodeExpires(f) PROVE CliInv'
  OBVIOUS
<1>1. late' \subseteq {g \in Flow : device[g] # Null}
  BY DEF CodeExpires, CliInv, TypeOK, LateIsLate
<1> QED BY <1>1, SameGood DEF CodeExpires

\* The invariant is inductive.
LEMMA CliInvNext == CliInv /\ [Next]_vars => CliInv'
<1> SUFFICES ASSUME CliInv, [Next]_vars PROVE CliInv'
  OBVIOUS
<1>1. CASE \E f \in Flow : \/ Start(f) \/ ApproveLate(f) \/ Deny(f)
                           \/ Poll(f) \/ PollAnswered(f) \/ PollLost(f)
                           \/ TimesOut(f) \/ CodeExpires(f)
  BY <1>1, StartInv, DeniesInv, PollInv, PollEndsInv, CodeExpiresInv
<1>2. CASE \E f \in Flow, email \in Email, k \in Token : Approve(f, email, k)
  BY <1>2, ApproveInv
<1>3. CASE \E k \in Token : VerifyDrops(k) \/ Revoke(k)
  BY <1>3, EndsInv
<1>4. CASE UNCHANGED vars
  <2>1. late' \subseteq {g \in Flow : device[g] # Null}
    BY <1>4 DEF vars, CliInv, TypeOK, LateIsLate
  <2> QED BY <1>4, <2>1, SameGood DEF vars, history
<1> QED BY <1>1, <1>2, <1>3, <1>4 DEF Next

-----------------------------------------------------------------------------
(***************************************************************************)
(* The theorems.                                                           *)
(***************************************************************************)
LEMMA CliInvAlways == Spec => []CliInv
<1> QED BY CliInvInit, CliInvNext, PTL DEF Spec

(* The variables have their types; no user code leads to no record, and no *)
(* token is stored that was not minted, crashes between puts included.     *)
THEOREM LoginTypeCorrect == Spec => []TypeOK
<1>1. CliInv => TypeOK
  BY DEF CliInv
<1> QED BY <1>1, CliInvAlways, PTL

(* At most one reply to a poll ever carries a token (cliAuth.ts:171-172).  *)
THEOREM TokenHandedOnce == Spec => []HandedOnce
<1>1. CliInv => HandedOnce
  BY DEF CliInv
<1> QED BY <1>1, CliInvAlways, PTL

(* What a client saved is stored under the e-mail it was told, unless the  *)
(* token was revoked, dropped for its age, or lost to a crash.             *)
THEOREM SavedTokenIsStored == Spec => []SavedIsStored
<1>1. CliInv => SavedIsStored
  BY DEF CliInv, ClientsGood, Good, SavedIsStored
<1> QED BY <1>1, CliInvAlways, PTL

\* The action that NoTokenForTheGone speaks of.
NoneMinted ==
    \A f \in Flow :
        cli[f].state \in {"expired", "timedout"} /\ device'[f].token # Null
            => device[f].token = device'[f].token

\* No step puts a token in the record of a client that has gone.
LEMMA NoneMintedStep == CliInv /\ [Next]_vars => NoneMinted
<1> SUFFICES ASSUME CliInv, [Next]_vars, NEW f \in Flow,
                    cli[f].state \in {"expired", "timedout"},
                    device'[f].token # Null
             PROVE  device[f].token = device'[f].token
  BY DEF NoneMinted
<1>1. /\ f \in late /\ device[f] \in Record /\ device[f] # Null
      /\ device \in [Flow -> Record \cup {Null}]
  BY DEF CliInv, TypeOK, LateIsLate
<1>2. ASSUME NEW g \in Flow, Start(g) \/ Poll(g)
      PROVE  device'[f] = device[f]
  BY <1>1, <1>2 DEF Start, Poll
<1>3. ASSUME NEW g \in Flow, ApproveLate(g) \/ Deny(g)
      PROVE  device'[f].token = device[f].token
  BY <1>1, <1>3 DEF ApproveLate, Deny, Known, Record
<1>4. ASSUME NEW g \in Flow, NEW email \in Email, NEW k \in Token,
             Approve(g, email, k)
      PROVE  device'[f] = device[f]
  BY <1>1, <1>4 DEF Approve
<1>5. ASSUME NEW g \in Flow, \/ PollAnswered(g) \/ PollLost(g) \/ TimesOut(g)
                             \/ CodeExpires(g)
      PROVE  device'[f] = device[f]
  BY <1>5 DEF PollAnswered, PollLost, TimesOut, CodeExpires
<1>6. ASSUME NEW k \in Token, VerifyDrops(k) \/ Revoke(k)
      PROVE  device'[f] = device[f]
  BY <1>6 DEF VerifyDrops, Revoke
<1>7. CASE UNCHANGED vars
  BY <1>7 DEF vars
<1> QED BY <1>2, <1>3, <1>4, <1>5, <1>6, <1>7 DEF Next

(* No token is minted for a client that has given up because its code ran  *)
(* out.                                                                    *)
THEOREM GoneGetNoToken == Spec => NoTokenForTheGone
<1>1. CliInv /\ [Next]_vars => [NoneMinted]_vars
  BY NoneMintedStep
<1>2. NoTokenForTheGone <=> [][NoneMinted]_vars
  BY PTL DEF NoTokenForTheGone, NoneMinted
<1> QED BY <1>1, <1>2, CliInvAlways, PTL DEF Spec
=============================================================================
