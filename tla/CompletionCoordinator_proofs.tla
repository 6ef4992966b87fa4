---------------------- MODULE CompletionCoordinator_proofs ----------------------
(***************************************************************************)
(* That the coordinator and the participant of a completion lease agree as *)
(* far as messages allow, for any leases, targets, lifetime and guard.     *)
(***************************************************************************)
EXTENDS CompletionCoordinator, TLAPS

----------------------------------------------------------------------------
(* Grants.                                                                  *)
GrantStates == Live \cup Terminal \cup {"none"}
Grant == [state : GrantStates, rev : Nat, expires : Nat]

(* The version of a grant tells how far it has come.                        *)
GrantOk(g) ==
    /\ g \in Grant
    /\ g.state = "none" <=> g = NoGrant
    /\ g.state = "none" <=> g.rev = 0
    /\ g.state = "held" <=> g.rev = 1
    /\ g.state \in {"prepared", "rejected"} => g.rev = 2
    /\ g.state = "consumed" => g.rev = 3
    /\ g.state = "completed" => g.rev = 4
    /\ g.state \in {"released", "expired"} => g.rev \in {2, 3}

(* g is a version that h has been: one of its past, or h itself.            *)
Past(g, h) ==
    \/ g = NoGrant
    \/ /\ g.rev <= h.rev
       /\ g.rev = h.rev => g = h
       /\ g.expires = h.expires
       /\ g.state \in Terminal => h.state \in Terminal

(* What may follow a grant.                                                 *)
Follows(g, state) ==
    \/ g.state = "held" /\ state \in {"prepared", "rejected", "released", "expired"}
    \/ g.state = "prepared" /\ state \in {"consumed", "released", "expired"}
    \/ g.state = "rejected" /\ state = "released"
    \/ g.state = "consumed" /\ state = "completed"

----------------------------------------------------------------------------
(* Leases.                                                                  *)
LeaseStates == Pending \cup {"none", "activated", "released", "expired", "gone"}
Listed(c) == c.state \notin {"none", "gone"}
Locks(c) == Listed(c) /\ c.local.state \in {"prepared", "consumed"}

LeaseShape(c) ==
    /\ c \in [state : LeaseStates, at : {c.at}, seq : {c.seq}, local : Grant, mirror : Grant,
              cert : BOOLEAN, due : BOOLEAN]
    /\ GrantOk(c.local) /\ GrantOk(c.mirror)
    /\ c.local.state # "rejected" /\ c.mirror.state # "rejected"

(* The certificate has the local grant behind it, and the participant's     *)
(* grant was prepared when it was issued; a lease that is over has a local  *)
(* grant that is over.                                                      *)
LeaseOk(c) ==
    /\ LeaseShape(c)
    /\ c.state = "none" => c = Unasked
    /\ c.state = "requested" => c.local = NoGrant /\ c.mirror = NoGrant
    /\ Listed(c) => ValidLease(c)
    /\ Listed(c) /\ c.cert =>
          c.local.state \in {"prepared", "consumed", "completed"} /\ ~c.due /\ c.mirror.rev >= 2
    /\ c.local.state \in {"consumed", "completed"} => c.cert
    /\ c.state = "prepared_all" => c.local.state = "prepared" /\ c.mirror.rev >= 2
    /\ c.state \in {"aborting", "released", "expired", "gone"} => c.local.state \in Terminal
    /\ c.state = "gone" => c.mirror = NoGrant \/ c.mirror.state \in Terminal
    /\ c.due => c.local # NoGrant

(* When a certificate may be issued.                                        *)
Issues(c) == c.state = "prepared_all" /\ ~(boundary >= Deadline(c.mirror))

(* A step of the coordinator on a lease, g the participant's grant as seen. *)
LeaseStep(c, d, g) ==
    /\ LeaseOk(d)
    /\ c.cert => d.cert
    /\ d.cert => c.cert \/ Issues(c)
    /\ c.local.state \in Terminal => d.local.state \in Terminal
    /\ d.mirror \in {c.mirror, g}

----------------------------------------------------------------------------
(* Lemmas about grants.                                                     *)

(* No grant at all is well formed, and so is one that was just made.        *)
LEMMA FreshGrants ==
    ASSUME NEW e \in Nat
    PROVE  GrantOk(NoGrant) /\ GrantOk(Held(e)) /\ Held(e).state = "held" /\ Held(e) # NoGrant
BY DEF GrantOk, Grant, GrantStates, NoGrant, Held, Live, Terminal

(* A grant that moves on is one version further and keeps its deadline.     *)
LEMMA NextGrant ==
    ASSUME NEW g, GrantOk(g), NEW s, Follows(g, s)
    PROVE  /\ GrantOk(Next1(g, s))
           /\ Next1(g, s) = [state |-> s, rev |-> g.rev + 1, expires |-> g.expires]
           /\ Past(g, Next1(g, s))
<1>1. g \in Grant
    BY DEF GrantOk
<1>a. PICK b : b = [g EXCEPT !.state = s, !.rev = @ + 1]
    OBVIOUS
<1>b. b \in [state : {s}, rev : {g.rev + 1}, expires : {g.expires}]
    BY <1>1, <1>a DEF Grant
<1>2. Next1(g, s) = [state |-> s, rev |-> g.rev + 1, expires |-> g.expires]
    BY <1>a, <1>b DEF Next1
<1>3. PICK h : h = [state |-> s, rev |-> g.rev + 1, expires |-> g.expires]
    OBVIOUS
<1>4. h.state = s /\ h.rev = g.rev + 1 /\ h.expires = g.expires
    BY <1>3
<1>5. s \in GrantStates /\ s # "none" /\ s # "held"
    BY DEF Follows, GrantStates, Live, Terminal
<1>6. h \in Grant
    BY <1>1, <1>3, <1>5 DEF Grant
<1>7. g.rev \in Nat /\ g.rev >= 1
    BY <1>1 DEF GrantOk, Follows, Grant
<1>8. h.rev >= 2 /\ h # NoGrant
    BY <1>4, <1>5, <1>7 DEF NoGrant
<1>9. /\ s \in {"prepared", "rejected"} => h.rev = 2
      /\ s = "consumed" => h.rev = 3
      /\ s = "completed" => h.rev = 4
      /\ s \in {"released", "expired"} => h.rev \in {2, 3}
    BY <1>4, <1>7 DEF GrantOk, Follows
<1>10. GrantOk(h)
    BY <1>4, <1>5, <1>6, <1>8, <1>9 DEF GrantOk
<1>11. g.state \in Terminal => s \in Terminal
    BY DEF Follows, Terminal
<1>12. Past(g, h)
    BY <1>4, <1>7, <1>11 DEF Past
<1> QED
    BY <1>2, <1>3, <1>10, <1>12

(* A version of the past stays one when the grant moves on.                 *)
LEMMA PastFollows ==
    ASSUME NEW g, NEW h, NEW k, GrantOk(g), GrantOk(h), GrantOk(k), Past(g, h), Past(h, k)
    PROVE  Past(g, k)
<1>1. CASE g = NoGrant
    BY <1>1 DEF Past
<1>2. CASE g # NoGrant /\ h = NoGrant
    BY <1>2 DEF Past, GrantOk, Grant, NoGrant
<1>3. CASE g # NoGrant /\ h # NoGrant
    BY <1>3 DEF Past, GrantOk, Grant
<1> QED
    BY <1>1, <1>2, <1>3

(* A grant is a version of its own past.                                    *)
LEMMA PastItself ==
    ASSUME NEW g, GrantOk(g)
    PROVE  Past(g, g)
BY DEF Past, GrantOk, Grant

----------------------------------------------------------------------------
(* Lemmas about one lease, an operation of the coordinator each.            *)

(* A lease put together from sound fields has the shape of one.             *)
LEMMA NewLease ==
    ASSUME NEW d, d.state \in LeaseStates, GrantOk(d.local), GrantOk(d.mirror),
           d.local.state # "rejected", d.mirror.state # "rejected",
           d.cert \in BOOLEAN, d.due \in BOOLEAN,
           d \in [state : {d.state}, at : {d.at}, seq : {d.seq}, local : {d.local},
                  mirror : {d.mirror}, cert : {d.cert}, due : {d.due}]
    PROVE  LeaseShape(d)
<1>1. d.local \in Grant /\ d.mirror \in Grant
    BY DEF GrantOk
<1> QED
    BY <1>1 DEF LeaseShape

(* A lease nobody has asked for yet is sound.                               *)
LEMMA UnaskedOk == LeaseOk(Unasked)
<1>1. PICK d : d = Unasked
    OBVIOUS
<1>2. GrantOk(NoGrant) /\ NoGrant.state = "none" /\ NoGrant.rev = 0
    BY FreshGrants DEF NoGrant
<1>3. d \in [state : {"none"}, at : {0}, seq : {0}, local : {NoGrant}, mirror : {NoGrant},
             cert : {FALSE}, due : {FALSE}]
    BY <1>1 DEF Unasked
<1>f. /\ d.state = "none" /\ d.at = 0 /\ d.seq = 0 /\ d.local = NoGrant /\ d.mirror = NoGrant
      /\ d.cert = FALSE /\ d.due = FALSE
    BY <1>3
<1>4. LeaseShape(d)
    BY <1>2, <1>3, <1>f, NewLease DEF LeaseStates
<1> QED
    BY <1>1, <1>2, <1>4, <1>f DEF LeaseOk, Listed, Terminal

(* request_completion_acquisition leaves an empty request.                  *)
LEMMA RequestedLease ==
    ASSUME NEW c, LeaseOk(c), c.state = "none", NEW a, NEW n, NEW d, NEW g,
           d = [Unasked EXCEPT !.state = "requested", !.at = a, !.seq = n]
    PROVE  LeaseStep(c, d, g) /\ ~Locks(d) /\ ~Locks(c)
<1>1. c = Unasked /\ NoGrant.state = "none" /\ NoGrant.rev = 0
    BY DEF LeaseOk, NoGrant
<1>2. c.cert = FALSE /\ c.local = NoGrant /\ c.mirror = NoGrant
    BY <1>1 DEF Unasked
<1>3. d \in [state : {"requested"}, at : {a}, seq : {n}, local : {NoGrant}, mirror : {NoGrant},
             cert : {FALSE}, due : {FALSE}]
    BY DEF Unasked
<1>4. GrantOk(NoGrant)
    BY FreshGrants
<1>f. /\ d.state = "requested" /\ d.at = a /\ d.seq = n /\ d.local = NoGrant
      /\ d.mirror = NoGrant /\ d.cert = FALSE /\ d.due = FALSE
    BY <1>3
<1>5. LeaseShape(d)
    BY <1>1, <1>3, <1>4, <1>f, NewLease DEF LeaseStates, Pending
<1>6. LeaseOk(d)
    BY <1>1, <1>5, <1>f DEF LeaseOk, Listed, Terminal, ValidLease
<1> QED
    BY <1>1, <1>2, <1>f, <1>6 DEF LeaseStep, Locks, Listed, Terminal

(* grant_local_completion gives the request a grant of the coordinator.     *)
LEMMA GrantedLease ==
    ASSUME NEW c, LeaseOk(c), c.state = "requested", NEW e \in Nat, NEW d, NEW g,
           d = [c EXCEPT !.local = Held(e), !.state = "partially_granted", !.due = TRUE]
    PROVE  LeaseStep(c, d, g) /\ ~Locks(d) /\ ~Locks(c)
<1>1. /\ c.local = NoGrant /\ c.mirror = NoGrant /\ ~c.cert /\ LeaseShape(c)
      /\ NoGrant.state = "none" /\ NoGrant.rev = 0
    BY DEF LeaseOk, Listed, ValidLease, NoGrant
<1>2. GrantOk(NoGrant) /\ GrantOk(Held(e)) /\ Held(e).state = "held" /\ Held(e) # NoGrant
    BY FreshGrants
<1>s. "partially_granted" \in LeaseStates
    BY DEF LeaseStates, Pending
<1>r. Held(e).state # "rejected" /\ NoGrant.state # "rejected"
    BY <1>1, <1>2
<1>3. c.cert = FALSE
    BY <1>1 DEF LeaseShape
<1>4. d \in [state : {"partially_granted"}, at : {c.at}, seq : {c.seq}, local : {Held(e)},
             mirror : {NoGrant}, cert : {FALSE}, due : {TRUE}]
    BY <1>1, <1>3 DEF LeaseShape
<1>f. /\ d.state = "partially_granted" /\ d.at = c.at /\ d.seq = c.seq /\ d.local = Held(e)
      /\ d.mirror = NoGrant /\ d.cert = FALSE /\ d.due = TRUE
    BY <1>4
<1>5. LeaseShape(d)
    BY <1>r, <1>s, <1>2, <1>4, <1>f, NewLease
<1>6. LeaseOk(d)
    BY <1>2, <1>5, <1>f DEF LeaseOk, Listed, ValidLease
<1> QED
    BY <1>1, <1>2, <1>f, <1>6 DEF LeaseStep, Locks, Terminal

(* recompute_acquisition_state touches the state alone, and finds a lease   *)
(* prepared only when both grants are.                                      *)
LEMMA RecomputedLease ==
    ASSUME NEW b, LeaseShape(b), b.mirror # NoGrant \/ b.local # NoGrant, NEW d, d = Recomputed(b)
    PROVE  /\ LeaseShape(d)
           /\ d.local = b.local /\ d.mirror = b.mirror /\ d.cert = b.cert /\ d.due = b.due
           /\ d.state \in {"partially_granted", "fully_granted", "preparing", "prepared_all"}
           /\ d.state = "prepared_all" => b.local.state = "prepared" /\ b.mirror.state = "prepared"
<1> DEFINE grants == {b.local, b.mirror} \ {NoGrant}
           prepared == {g \in grants : g.state = "prepared"}
           all == b.local # NoGrant /\ b.mirror # NoGrant
           state == IF all /\ prepared = grants THEN "prepared_all"
                    ELSE IF prepared # {} THEN "preparing"
                    ELSE IF all THEN "fully_granted"
                    ELSE IF grants = {} THEN "requested" ELSE "partially_granted"
<1>1. grants # {}
    OBVIOUS
<1>2. /\ state \in {"partially_granted", "fully_granted", "preparing", "prepared_all"}
      /\ state = "prepared_all" => all /\ prepared = grants
    BY <1>1
<1>3. all /\ prepared = grants => b.local \in prepared /\ b.mirror \in prepared
    OBVIOUS
<1>4. all /\ prepared = grants => b.local.state = "prepared" /\ b.mirror.state = "prepared"
    BY <1>3
<1>5. d = [b EXCEPT !.state = state]
    BY DEF Recomputed
<1>6. PICK s : s = state
    OBVIOUS
<1>7. d = [b EXCEPT !.state = s]
    BY <1>5, <1>6
<1>8. /\ s \in {"partially_granted", "fully_granted", "preparing", "prepared_all"}
      /\ s = "prepared_all" => b.local.state = "prepared" /\ b.mirror.state = "prepared"
    BY <1>2, <1>4, <1>6
<1> HIDE DEF state
<1>9. d \in [state : {s}, at : {b.at}, seq : {b.seq}, local : {b.local}, mirror : {b.mirror},
             cert : {b.cert}, due : {b.due}]
    BY <1>7 DEF LeaseShape
<1>f. /\ d.state = s /\ d.at = b.at /\ d.seq = b.seq /\ d.local = b.local
      /\ d.mirror = b.mirror /\ d.cert = b.cert /\ d.due = b.due
    BY <1>9
<1>10. s \in LeaseStates /\ b.cert \in BOOLEAN /\ b.due \in BOOLEAN
    BY <1>8 DEF LeaseStates, Pending, LeaseShape
<1>11. LeaseShape(d)
    BY <1>9, <1>f, <1>10, NewLease DEF LeaseShape
<1> QED
    BY <1>8, <1>f, <1>11

(* acknowledge_participant_grant: no certificate is out yet, for the        *)
(* participant's grant was not known to be prepared.                        *)
LEMMA AcknowledgedLease ==
    ASSUME NEW c, LeaseOk(c), Listed(c), NEW g, GrantOk(g), g.state \in {"held", "prepared"},
           c.mirror = NoGrant \/ c.mirror.state = "held",
           NEW d, d = Recomputed([c EXCEPT !.mirror = g]), Listed(d) => ValidLease(d)
    PROVE  LeaseStep(c, d, g) /\ (Locks(d) <=> Locks(c))
<1>1. LeaseShape(c) /\ GrantOk(c.mirror) /\ c.cert \in BOOLEAN /\ c.due \in BOOLEAN
    BY DEF LeaseOk, LeaseShape
<1>2. g # NoGrant /\ g.state # "rejected"
    BY DEF GrantOk
<1>3. c.mirror.rev \in {0, 1}
    BY <1>1 DEF GrantOk, NoGrant
<1>4. c.cert = FALSE
    BY <1>1, <1>3 DEF LeaseOk
<1>5. PICK b : b = [c EXCEPT !.mirror = g]
    OBVIOUS
<1>6. b \in [state : {c.state}, at : {c.at}, seq : {c.seq}, local : {c.local}, mirror : {g},
             cert : {c.cert}, due : {c.due}]
    BY <1>1, <1>5 DEF LeaseShape
<1>7. /\ b.state = c.state /\ b.at = c.at /\ b.seq = c.seq /\ b.local = c.local
      /\ b.mirror = g /\ b.cert = c.cert /\ b.due = c.due
    BY <1>6
<1>8. c.state \in LeaseStates /\ GrantOk(c.local) /\ c.local.state # "rejected"
    BY <1>1 DEF LeaseShape
<1>9. LeaseShape(b)
    BY <1>1, <1>2, <1>6, <1>7, <1>8, NewLease
<1>e. d = Recomputed(b) /\ b.mirror # NoGrant
    BY <1>2, <1>5, <1>7
<1>10. /\ LeaseShape(d) /\ d.local = c.local /\ d.mirror = g /\ d.cert = c.cert /\ d.due = c.due
       /\ d.state \in {"partially_granted", "fully_granted", "preparing", "prepared_all"}
       /\ d.state = "prepared_all" => c.local.state = "prepared" /\ g.state = "prepared"
    BY <1>e, <1>7, <1>9, RecomputedLease
<1>11. g.state = "prepared" => g.rev >= 2
    BY DEF GrantOk
<1>12. c.local.state \notin {"consumed", "completed"} /\ (c.due => c.local # NoGrant)
    BY <1>4 DEF LeaseOk
<1>13. LeaseOk(d)
    BY <1>4, <1>10, <1>11, <1>12 DEF LeaseOk
<1> QED
    BY <1>4, <1>10, <1>13 DEF LeaseStep, Locks, Listed

(* prepare_local_completion.                                                *)
LEMMA PreparedLease ==
    ASSUME NEW c, LeaseOk(c), c.state \in {"fully_granted", "preparing"}, c.local.state = "held",
           NEW d, d = Recomputed([c EXCEPT !.local = Next1(@, "prepared")]),
           Listed(d) => ValidLease(d), NEW g
    PROVE  LeaseStep(c, d, g) /\ Locks(d)
<1>1. /\ LeaseShape(c) /\ GrantOk(c.local) /\ GrantOk(c.mirror) /\ c.cert \in BOOLEAN
      /\ c.due \in BOOLEAN /\ c.state \in LeaseStates /\ c.mirror.state # "rejected"
    BY DEF LeaseOk, LeaseShape
<1>2. c.cert = FALSE
    BY <1>1 DEF LeaseOk, Listed, ValidLease
<1>3. PICK h : h = Next1(c.local, "prepared")
    OBVIOUS
<1>4. GrantOk(h) /\ h.state = "prepared"
    BY <1>1, <1>3, NextGrant DEF Follows
<1>5. h # NoGrant
    BY <1>4 DEF NoGrant
<1>6. PICK b : b = [c EXCEPT !.local = h]
    OBVIOUS
<1>7. b = [c EXCEPT !.local = Next1(@, "prepared")]
    BY <1>1, <1>3, <1>6 DEF LeaseShape
<1>8. b \in [state : {c.state}, at : {c.at}, seq : {c.seq}, local : {h}, mirror : {c.mirror},
             cert : {c.cert}, due : {c.due}]
    BY <1>1, <1>6 DEF LeaseShape
<1>9. /\ b.state = c.state /\ b.at = c.at /\ b.seq = c.seq /\ b.local = h
      /\ b.mirror = c.mirror /\ b.cert = c.cert /\ b.due = c.due
    BY <1>8
<1>10. LeaseShape(b)
    BY <1>1, <1>4, <1>8, <1>9, NewLease
<1>e. d = Recomputed(b) /\ b.local # NoGrant
    BY <1>5, <1>7, <1>9
<1>11. /\ LeaseShape(d) /\ d.local = h /\ d.mirror = c.mirror /\ d.cert = c.cert /\ d.due = c.due
       /\ d.state \in {"partially_granted", "fully_granted", "preparing", "prepared_all"}
       /\ d.state = "prepared_all" => c.mirror.state = "prepared"
    BY <1>e, <1>9, <1>10, RecomputedLease
<1>12. c.mirror.state = "prepared" => c.mirror.rev >= 2
    BY <1>1 DEF GrantOk
<1>13. LeaseOk(d)
    BY <1>2, <1>4, <1>5, <1>11, <1>12 DEF LeaseOk
<1> QED
    BY <1>2, <1>4, <1>11, <1>13 DEF LeaseStep, Locks, Listed, Terminal

(* activate_completion: both grants are there, and none of them is over.    *)
LEMMA ActivatedLease ==
    ASSUME NEW c, LeaseOk(c), c.state = "prepared_all", Issues(c),
           NEW d, d = [c EXCEPT !.state = "activated", !.cert = TRUE, !.due = FALSE], NEW g
    PROVE  LeaseStep(c, d, g) /\ Locks(d) /\ Locks(c)
<1>1. /\ LeaseShape(c) /\ GrantOk(c.local) /\ GrantOk(c.mirror)
      /\ c.mirror.state # "rejected" /\ c.local.state = "prepared" /\ c.mirror.rev >= 2
      /\ c.local # NoGrant /\ c.mirror # NoGrant
    BY DEF LeaseOk, LeaseShape, Listed, ValidLease
<1>2. d \in [state : {"activated"}, at : {c.at}, seq : {c.seq}, local : {c.local},
             mirror : {c.mirror}, cert : {TRUE}, due : {FALSE}]
    BY <1>1 DEF LeaseShape
<1>3. /\ d.state = "activated" /\ d.at = c.at /\ d.seq = c.seq /\ d.local = c.local
      /\ d.mirror = c.mirror /\ d.cert = TRUE /\ d.due = FALSE
    BY <1>2
<1>4. "activated" \in LeaseStates
    BY DEF LeaseStates
<1>5. LeaseShape(d)
    BY <1>1, <1>2, <1>3, <1>4, NewLease
<1>6. LeaseOk(d)
    BY <1>1, <1>3, <1>5 DEF LeaseOk, Listed, ValidLease
<1> QED
    BY <1>1, <1>3, <1>6 DEF LeaseStep, Locks, Listed

(* release_acquisition_if_terminal touches the state alone.                 *)
LEMMA TerminalLease ==
    ASSUME NEW b, LeaseShape(b), NEW d, d = ReleasedIfTerminal(b)
    PROVE  /\ LeaseShape(d)
           /\ d.local = b.local /\ d.mirror = b.mirror /\ d.cert = b.cert /\ d.due = b.due
           /\ \/ d.state = b.state
              \/ d.state = "released" /\ (b.local = NoGrant \/ b.local.state \in Terminal)
<1>1. CASE d = b
    BY <1>1
<1>2. CASE d # b
    <2>1. d = [b EXCEPT !.state = "released"] /\ (b.local = NoGrant \/ b.local.state \in Terminal)
        BY <1>2 DEF ReleasedIfTerminal
    <2>2. d \in [state : {"released"}, at : {b.at}, seq : {b.seq}, local : {b.local},
                 mirror : {b.mirror}, cert : {b.cert}, due : {b.due}]
        BY <2>1 DEF LeaseShape
    <2>3. /\ d.state = "released" /\ d.at = b.at /\ d.seq = b.seq /\ d.local = b.local
          /\ d.mirror = b.mirror /\ d.cert = b.cert /\ d.due = b.due
        BY <2>2
    <2>4. "released" \in LeaseStates
        BY DEF LeaseStates
    <2>5. LeaseShape(d)
        BY <2>2, <2>3, <2>4, NewLease DEF LeaseShape
    <2> QED
        BY <2>1, <2>3, <2>5
<1> QED
    BY <1>1, <1>2

(* acknowledge_participant_consumed and acknowledge_participant_terminal    *)
(* record a later version of the participant's grant.                       *)
LEMMA RecordedLease ==
    ASSUME NEW c, LeaseOk(c), Listed(c), NEW g, GrantOk(g), g.state # "rejected",
           c.mirror.state \in {"held", "prepared", "consumed"}, g.rev = c.mirror.rev + 1,
           NEW d, d \in {[c EXCEPT !.mirror = g], ReleasedIfTerminal([c EXCEPT !.mirror = g])},
           Listed(d) => ValidLease(d)
    PROVE  LeaseStep(c, d, g) /\ (Locks(d) <=> Locks(c))
<1>1. /\ LeaseShape(c) /\ GrantOk(c.local) /\ GrantOk(c.mirror) /\ c.cert \in BOOLEAN
      /\ c.due \in BOOLEAN /\ c.state \in LeaseStates /\ c.local.state # "rejected"
    BY DEF LeaseOk, LeaseShape
<1>2. c.mirror.rev \in Nat /\ c.mirror.rev >= 1 /\ c.mirror # NoGrant
    BY <1>1 DEF GrantOk, Grant, NoGrant
<1>3. g.rev >= 2 /\ g.rev \in Nat
    BY <1>2 DEF GrantOk, Grant
<1>4. PICK b : b = [c EXCEPT !.mirror = g]
    OBVIOUS
<1>5. b \in [state : {c.state}, at : {c.at}, seq : {c.seq}, local : {c.local}, mirror : {g},
             cert : {c.cert}, due : {c.due}]
    BY <1>1, <1>4 DEF LeaseShape
<1>6. /\ b.state = c.state /\ b.at = c.at /\ b.seq = c.seq /\ b.local = c.local
      /\ b.mirror = g /\ b.cert = c.cert /\ b.due = c.due
    BY <1>5
<1>7. LeaseShape(b)
    BY <1>1, <1>5, <1>6, NewLease
<1>8. d = b \/ d = ReleasedIfTerminal(b)
    BY <1>4
<1>9. /\ LeaseShape(d)
      /\ d.local = b.local /\ d.mirror = b.mirror /\ d.cert = b.cert /\ d.due = b.due
      /\ \/ d.state = b.state
         \/ d.state = "released" /\ (b.local = NoGrant \/ b.local.state \in Terminal)
    BY <1>7, <1>8, TerminalLease
<1>10. CASE d.state = c.state
    <2>1. LeaseOk(d)
        BY <1>2, <1>3, <1>6, <1>9, <1>10 DEF LeaseOk, Listed
    <2> QED
        BY <1>6, <1>9, <1>10, <2>1 DEF LeaseStep, Locks, Listed
<1>11. CASE d.state = "released" /\ (c.local = NoGrant \/ c.local.state \in Terminal)
    <2>1. Listed(d) /\ ValidLease(d)
        BY <1>11 DEF Listed
    <2>2. d.cert /\ d.local # NoGrant
        BY <1>9, <1>11, <2>1 DEF ValidLease
    <2>3. c.local.state \in Terminal /\ c.cert
        BY <1>6, <1>9, <1>11, <2>2
    <2>4. LeaseOk(d)
        BY <1>3, <1>6, <1>9, <1>11, <2>1, <2>3 DEF LeaseOk, Listed
    <2> QED
        BY <1>6, <1>9, <1>11, <2>3, <2>4 DEF LeaseStep, Locks, Terminal
<1> QED
    BY <1>6, <1>9, <1>10, <1>11

(* consume_local_completion_grant, under the certificate.                   *)
LEMMA ConsumedLease ==
    ASSUME NEW c, LeaseOk(c), c.state = "activated", c.local.state = "prepared",
           NEW d, d = [c EXCEPT !.local = Next1(@, "consumed")], NEW g
    PROVE  LeaseStep(c, d, g) /\ Locks(d) /\ Locks(c)
<1>1. /\ LeaseShape(c) /\ GrantOk(c.local) /\ GrantOk(c.mirror) /\ c.cert \in BOOLEAN
      /\ c.due \in BOOLEAN /\ c.state \in LeaseStates /\ c.mirror.state # "rejected"
    BY DEF LeaseOk, LeaseShape
<1>2. /\ c.cert = TRUE /\ c.due = FALSE /\ c.mirror.rev >= 2
      /\ c.local # NoGrant /\ c.mirror # NoGrant
    BY <1>1 DEF LeaseOk, Listed, ValidLease
<1>3. PICK h : h = Next1(c.local, "consumed")
    OBVIOUS
<1>4. GrantOk(h) /\ h.state = "consumed"
    BY <1>1, <1>3, NextGrant DEF Follows
<1>5. h # NoGrant
    BY <1>4 DEF NoGrant
<1>6. d = [c EXCEPT !.local = h]
    BY <1>1, <1>3 DEF LeaseShape
<1>7. d \in [state : {c.state}, at : {c.at}, seq : {c.seq}, local : {h}, mirror : {c.mirror},
             cert : {c.cert}, due : {c.due}]
    BY <1>1, <1>6 DEF LeaseShape
<1>8. /\ d.state = c.state /\ d.at = c.at /\ d.seq = c.seq /\ d.local = h
      /\ d.mirror = c.mirror /\ d.cert = c.cert /\ d.due = c.due
    BY <1>7
<1>9. LeaseShape(d)
    BY <1>1, <1>4, <1>7, <1>8, NewLease
<1>10. LeaseOk(d)
    BY <1>2, <1>4, <1>5, <1>8, <1>9 DEF LeaseOk, Listed, ValidLease
<1> QED
    BY <1>2, <1>4, <1>8, <1>10 DEF LeaseStep, Locks, Listed, Terminal

(* complete_local_completion_grant gives the lock back.                     *)
LEMMA CompletedLease ==
    ASSUME NEW c, LeaseOk(c), Listed(c), c.local.state = "consumed",
           NEW d, d = ReleasedIfTerminal([c EXCEPT !.local = Next1(@, "completed")]), NEW g,
           Listed(d) => ValidLease(d)
    PROVE  LeaseStep(c, d, g) /\ ~Locks(d)
<1>1. /\ LeaseShape(c) /\ GrantOk(c.local) /\ GrantOk(c.mirror) /\ c.cert \in BOOLEAN
      /\ c.due \in BOOLEAN /\ c.state \in LeaseStates /\ c.mirror.state # "rejected"
    BY DEF LeaseOk, LeaseShape
<1>2. c.cert = TRUE /\ c.due = FALSE /\ c.mirror.rev >= 2 /\ c.state \in {"activated", "released"}
    BY <1>1 DEF LeaseOk, Listed, ValidLease
<1>3. PICK h : h = Next1(c.local, "completed")
    OBVIOUS
<1>4. GrantOk(h) /\ h.state = "completed"
    BY <1>1, <1>3, NextGrant DEF Follows
<1>5. PICK b : b = [c EXCEPT !.local = h]
    OBVIOUS
<1>6. b = [c EXCEPT !.local = Next1(@, "completed")]
    BY <1>1, <1>3, <1>5 DEF LeaseShape
<1>7. b \in [state : {c.state}, at : {c.at}, seq : {c.seq}, local : {h}, mirror : {c.mirror},
             cert : {c.cert}, due : {c.due}]
    BY <1>1, <1>5 DEF LeaseShape
<1>8. /\ b.state = c.state /\ b.at = c.at /\ b.seq = c.seq /\ b.local = h
      /\ b.mirror = c.mirror /\ b.cert = c.cert /\ b.due = c.due
    BY <1>7
<1>9. LeaseShape(b)
    BY <1>1, <1>4, <1>7, <1>8, NewLease
<1>10. d = ReleasedIfTerminal(b)
    BY <1>6
<1>11. /\ LeaseShape(d) /\ d.local = h /\ d.mirror = c.mirror /\ d.cert = c.cert /\ d.due = c.due
       /\ d.state \in {c.state, "released"}
    BY <1>8, <1>9, <1>10, TerminalLease
<1>12. LeaseOk(d)
    BY <1>2, <1>4, <1>11 DEF LeaseOk, Listed, Terminal
<1> QED
    BY <1>2, <1>4, <1>11, <1>12 DEF LeaseStep, Locks, Terminal

(* The local grant of a lease without a certificate that is taken back, by  *)
(* an abort or at its deadline, is over.                                    *)
LEMMA TakenBack ==
    ASSUME NEW c, LeaseOk(c), ~c.cert, c.local # NoGrant, NEW s \in {"released", "expired"},
           NEW h, h = IF c.local.state \in {"held", "prepared"} THEN Next1(c.local, s) ELSE c.local
    PROVE  GrantOk(h) /\ h # NoGrant /\ h.state \in Terminal \ {"rejected", "completed"}
<1>1. GrantOk(c.local) /\ c.local.state # "completed" /\ c.local.state # "rejected"
    BY DEF LeaseOk, LeaseShape
<1>2. CASE c.local.state \in {"held", "prepared"}
    <2>1. Follows(c.local, s)
        BY <1>2 DEF Follows
    <2>2. h = Next1(c.local, s)
        BY <1>2
    <2>3. GrantOk(h) /\ h.state = s
        BY <1>1, <2>1, <2>2, NextGrant
    <2> QED
        BY <2>3 DEF NoGrant, Terminal
<1>3. CASE c.local.state \notin {"held", "prepared"}
    <2>1. h = c.local
        BY <1>3
    <2>2. c.local.state \in GrantStates /\ c.local.state # "none" /\ c.local.state # "consumed"
        BY <1>1 DEF GrantOk, Grant, LeaseOk
    <2>3. c.local.state \in Terminal
        BY <1>3, <2>2 DEF GrantStates, Live, Terminal
    <2> QED
        BY <1>1, <2>1, <2>3
<1> QED
    BY <1>2, <1>3

(* abort_completion_acquisition frees the coordinator's units.              *)
LEMMA AbortedLease ==
    ASSUME NEW c, LeaseOk(c), c.state \in Pending, NEW h, NEW s \in {"released", "aborting"},
           h = IF c.local.state \in {"held", "prepared"} THEN Next1(c.local, "released") ELSE c.local,
           NEW d, d = [c EXCEPT !.local = h, !.state = s], NEW g,
           Listed(d) => ValidLease(d)
    PROVE  LeaseStep(c, d, g) /\ ~Locks(d)
<1>1. /\ LeaseShape(c) /\ GrantOk(c.mirror) /\ c.cert \in BOOLEAN
      /\ c.due \in BOOLEAN /\ c.mirror.state # "rejected"
    BY DEF LeaseOk, LeaseShape
<1>2. c.cert = FALSE
    BY <1>1 DEF LeaseOk, Listed, ValidLease, Pending
<1>3. d \in [state : {s}, at : {c.at}, seq : {c.seq}, local : {h}, mirror : {c.mirror},
             cert : {c.cert}, due : {c.due}]
    BY <1>1 DEF LeaseShape
<1>4. /\ d.state = s /\ d.at = c.at /\ d.seq = c.seq /\ d.local = h
      /\ d.mirror = c.mirror /\ d.cert = c.cert /\ d.due = c.due
    BY <1>3
<1>5. Listed(d) /\ ValidLease(d)
    BY <1>4 DEF Listed
<1>6. h # NoGrant
    BY <1>2, <1>4, <1>5 DEF ValidLease
<1>7. c.local # NoGrant
    BY <1>6 DEF NoGrant
<1>8. GrantOk(h) /\ h.state \in Terminal \ {"rejected", "completed"}
    BY <1>2, <1>7, TakenBack
<1>9. s \in LeaseStates
    BY DEF LeaseStates, Pending
<1>10. LeaseShape(d)
    BY <1>1, <1>3, <1>4, <1>8, <1>9, NewLease
<1>12. h.state \notin {"prepared", "consumed", "completed"}
    BY <1>8 DEF Terminal
<1>13. LeaseOk(d)
    BY <1>2, <1>4, <1>5, <1>6, <1>8, <1>10, <1>12 DEF LeaseOk, Listed
<1> QED
    BY <1>2, <1>4, <1>8, <1>12, <1>13 DEF LeaseStep, Locks

(* expire_local_completion takes a lease that is not activated.             *)
LEMMA ExpiredLease ==
    ASSUME NEW c, LeaseOk(c), Listed(c), c.due, NEW h,
           h = IF c.local.state \in {"held", "prepared"} THEN Next1(c.local, "expired") ELSE c.local,
           NEW d, d = [c EXCEPT !.local = h, !.state = "expired", !.due = FALSE], NEW g,
           Listed(d) => ValidLease(d)
    PROVE  LeaseStep(c, d, g) /\ ~Locks(d)
<1>1. /\ LeaseShape(c) /\ GrantOk(c.mirror) /\ c.cert \in BOOLEAN
      /\ c.due \in BOOLEAN /\ c.mirror.state # "rejected"
    BY DEF LeaseOk, LeaseShape
<1>2. c.cert = FALSE /\ c.local # NoGrant
    BY <1>1 DEF LeaseOk
<1>3. d \in [state : {"expired"}, at : {c.at}, seq : {c.seq}, local : {h}, mirror : {c.mirror},
             cert : {c.cert}, due : {FALSE}]
    BY <1>1 DEF LeaseShape
<1>4. /\ d.state = "expired" /\ d.at = c.at /\ d.seq = c.seq /\ d.local = h
      /\ d.mirror = c.mirror /\ d.cert = c.cert /\ d.due = FALSE
    BY <1>3
<1>5. Listed(d) /\ ValidLease(d)
    BY <1>4 DEF Listed
<1>6. GrantOk(h) /\ h # NoGrant /\ h.state \in Terminal \ {"rejected", "completed"}
    BY <1>2, TakenBack
<1>7. "expired" \in LeaseStates
    BY DEF LeaseStates
<1>8. LeaseShape(d)
    BY <1>1, <1>3, <1>4, <1>6, <1>7, NewLease
<1>10. h.state \notin {"prepared", "consumed", "completed"}
    BY <1>6 DEF Terminal
<1>11. LeaseOk(d)
    BY <1>2, <1>4, <1>5, <1>6, <1>8, <1>10 DEF LeaseOk, Listed
<1> QED
    BY <1>2, <1>4, <1>6, <1>10, <1>11 DEF LeaseStep, Locks

(* An archive commit takes a lease whose grants are both over.              *)
LEMMA RetiredLease ==
    ASSUME NEW c, LeaseOk(c), c.state \in {"released", "expired"}, c.mirror.state \notin Live,
           NEW d, d = [c EXCEPT !.state = "gone"], NEW g
    PROVE  LeaseStep(c, d, g) /\ ~Locks(d) /\ ~Locks(c)
<1>1. /\ LeaseShape(c) /\ GrantOk(c.local) /\ GrantOk(c.mirror) /\ c.cert \in BOOLEAN
      /\ c.due \in BOOLEAN /\ c.mirror.state # "rejected" /\ c.local.state # "rejected"
      /\ c.local.state \in Terminal
    BY DEF LeaseOk, LeaseShape
<1>2. d \in [state : {"gone"}, at : {c.at}, seq : {c.seq}, local : {c.local},
             mirror : {c.mirror}, cert : {c.cert}, due : {c.due}]
    BY <1>1 DEF LeaseShape
<1>3. /\ d.state = "gone" /\ d.at = c.at /\ d.seq = c.seq /\ d.local = c.local
      /\ d.mirror = c.mirror /\ d.cert = c.cert /\ d.due = c.due
    BY <1>2
<1>4. "gone" \in LeaseStates
    BY DEF LeaseStates
<1>5. LeaseShape(d)
    BY <1>1, <1>2, <1>3, <1>4, NewLease
<1>6. c.mirror = NoGrant \/ c.mirror.state \in Terminal
    BY <1>1 DEF GrantOk, Grant, GrantStates
<1>7. (c.due => c.local # NoGrant) /\ (c.local.state \in {"consumed", "completed"} => c.cert)
    BY DEF LeaseOk
<1>8. LeaseOk(d)
    BY <1>1, <1>3, <1>5, <1>6, <1>7 DEF LeaseOk, Listed
<1> QED
    BY <1>1, <1>3, <1>8 DEF LeaseStep, Locks, Listed, Terminal

----------------------------------------------------------------------------
(* The coordinator's root.                                                  *)
ProdShape(p) ==
    /\ p \in [lease : {p.lease}, locks : SUBSET Leases, tokens : {p.tokens}, asked : {p.asked}]
    /\ p.lease = [l \in Leases |-> p.lease[l]]

ProdOk(p) ==
    /\ ProdShape(p)
    /\ \A l \in Leases : LeaseOk(p.lease[l])
    /\ p.locks = {l \in Leases : Locks(p.lease[l])}

(* A step of the coordinator, r the participant's root as it is seen.       *)
Advances(p, n, r) ==
    ProdOk(n) /\ \A l \in Leases : LeaseStep(p.lease[l], n.lease[l], r.part[l])

(* A lease that stays as it is takes a step too.                            *)
LEMMA SameLease ==
    ASSUME NEW c, LeaseOk(c), NEW g
    PROVE  LeaseStep(c, c, g)
BY DEF LeaseStep

(* SetLease changes the one lease.                                          *)
LEMMA LeaseSet ==
    ASSUME NEW p, ProdShape(p), NEW l \in Leases, NEW d, NEW n, n = SetLease(p, l, d)
    PROVE  /\ ProdShape(n) /\ n.lease = [p.lease EXCEPT ![l] = d] /\ n.lease[l] = d
           /\ n.locks = p.locks /\ n.tokens = p.tokens /\ n.asked = p.asked
<1>1. PICK f : f = [p.lease EXCEPT ![l] = d]
    OBVIOUS
<1>2. f = [k \in Leases |-> f[k]] /\ f[l] = d
    BY <1>1 DEF ProdShape
<1>3. n = [p EXCEPT !.lease = f]
    BY <1>1 DEF SetLease
<1>4. n \in [lease : {f}, locks : {p.locks}, tokens : {p.tokens}, asked : {p.asked}]
    BY <1>3 DEF ProdShape
<1>5. n.lease = f /\ n.locks = p.locks /\ n.tokens = p.tokens /\ n.asked = p.asked
    BY <1>4
<1>6. p.locks \in SUBSET Leases
    BY DEF ProdShape
<1>7. n \in [lease : {n.lease}, locks : SUBSET Leases, tokens : {n.tokens}, asked : {n.asked}]
    BY <1>4, <1>5, <1>6
<1> QED
    BY <1>1, <1>2, <1>5, <1>7 DEF ProdShape

(* A root its check lets through has a valid lease in every place.          *)
LEMMA ValidAt ==
    ASSUME NEW n, Valid(n), NEW l \in Leases
    PROVE  Listed(n.lease[l]) => ValidLease(n.lease[l])
BY DEF Valid, Known, Listed

(* So does the lease an operation sets.                                     *)
LEMMA ValidSet ==
    ASSUME NEW p, ProdShape(p), NEW l \in Leases, NEW d, Valid(SetLease(p, l, d))
    PROVE  Listed(d) => ValidLease(d)
<1>1. PICK n : n = SetLease(p, l, d)
    OBVIOUS
<1>2. /\ ProdShape(n) /\ n.lease = [p.lease EXCEPT ![l] = d] /\ n.lease[l] = d
    BY <1>1, LeaseSet
<1>3. n.lease[l] = d
    BY <1>2 DEF ProdShape
<1>4. Listed(n.lease[l]) => ValidLease(n.lease[l])
    BY <1>1, ValidAt
<1> QED
    BY <1>3, <1>4

(* A step of one lease is a step of the root.                               *)
LEMMA OneLease ==
    ASSUME NEW p, ProdOk(p), NEW l \in Leases, NEW d, NEW r, LeaseStep(p.lease[l], d, r.part[l]),
           NEW n, ProdShape(n), n.lease = [p.lease EXCEPT ![l] = d],
           \A k \in Leases : k \in n.locks <=> IF k = l THEN Locks(d) ELSE k \in p.locks
    PROVE  Advances(p, n, r)
<1>1. ASSUME NEW k \in Leases
      PROVE  n.lease[k] = IF k = l THEN d ELSE p.lease[k]
    BY DEF ProdOk, ProdShape
<1>2. ASSUME NEW k \in Leases
      PROVE  LeaseOk(n.lease[k]) /\ LeaseStep(p.lease[k], n.lease[k], r.part[k])
    <2>1. CASE k = l
        BY <1>1, <2>1 DEF LeaseStep
    <2>2. CASE k # l
        BY <1>1, <2>2, SameLease DEF ProdOk
    <2> QED
        BY <2>1, <2>2
<1>3. ASSUME NEW k \in Leases
      PROVE  k \in n.locks <=> Locks(n.lease[k])
    <2>1. k \in p.locks <=> Locks(p.lease[k])
        BY DEF ProdOk
    <2> QED
        BY <1>1, <2>1
<1>4. n.locks \subseteq Leases
    BY DEF ProdShape
<1>5. n.locks = {k \in Leases : Locks(n.lease[k])}
    BY <1>3, <1>4
<1> QED
    BY <1>2, <1>5 DEF Advances, ProdOk

(* The usual case: the root of p with one lease replaced, its lock as the   *)
(* lease says.                                                              *)
LEMMA SetAdvances ==
    ASSUME NEW p, ProdOk(p), NEW l \in Leases, NEW d, NEW r, LeaseStep(p.lease[l], d, r.part[l]),
           Locks(d) <=> Locks(p.lease[l]), NEW n, n = SetLease(p, l, d)
    PROVE  Advances(p, n, r)
<1>1. /\ ProdShape(n) /\ n.lease = [p.lease EXCEPT ![l] = d] /\ n.locks = p.locks
    BY LeaseSet DEF ProdOk
<1>2. \A k \in Leases : k \in n.locks <=> IF k = l THEN Locks(d) ELSE k \in p.locks
    BY <1>1 DEF ProdOk
<1> QED
    BY <1>1, <1>2, OneLease

(* The same with the lock given back.                                       *)
LEMMA UnlockAdvances ==
    ASSUME NEW p, ProdOk(p), NEW l \in Leases, NEW d, NEW n, n = SetLease(Unlock(p, l), l, d)
    PROVE  /\ n.lease[l] = d
           /\ \A r : LeaseStep(p.lease[l], d, r.part[l]) /\ ~Locks(d) => Advances(p, n, r)
<1>1. PICK q : q = Unlock(p, l)
    OBVIOUS
<1>2. ProdShape(p)
    BY DEF ProdOk
<1>3. q \in [lease : {p.lease}, locks : {p.locks \ {l}}, tokens : {p.tokens}, asked : {p.asked}]
    BY <1>1, <1>2 DEF Unlock, ProdShape
<1>4. /\ q.lease = p.lease /\ q.locks = p.locks \ {l} /\ q.tokens = p.tokens /\ q.asked = p.asked
    BY <1>3
<1>5. q.locks \in SUBSET Leases
    BY <1>2, <1>4 DEF ProdShape
<1>6. q \in [lease : {q.lease}, locks : SUBSET Leases, tokens : {q.tokens}, asked : {q.asked}]
    BY <1>3, <1>4, <1>5
<1>7. ProdShape(q)
    BY <1>2, <1>4, <1>6 DEF ProdShape
<1>8. n = SetLease(q, l, d)
    BY <1>1
<1>9. ProdShape(n) /\ n.lease = [p.lease EXCEPT ![l] = d] /\ n.lease[l] = d /\ n.locks = p.locks \ {l}
    BY <1>4, <1>7, <1>8, LeaseSet
<1>10. ASSUME NEW r, LeaseStep(p.lease[l], d, r.part[l]), ~Locks(d)
       PROVE  Advances(p, n, r)
    <2>1. \A k \in Leases : k \in n.locks <=> IF k = l THEN Locks(d) ELSE k \in p.locks
        BY <1>9, <1>10
    <2> QED
        BY <1>9, <1>10, <2>1, OneLease
<1> QED
    BY <1>9, <1>10

----------------------------------------------------------------------------
(* Every operation of the coordinator is a step of its root.                *)

(* request_completion_acquisition                                           *)
LEMMA RequestAdvances ==
    ASSUME NEW p, ProdOk(p), NEW l \in Leases, NEW a, NEW n \in Request(p, l, a), NEW r
    PROVE  Advances(p, n, r)
<1>1. PICK d : d = [Unasked EXCEPT !.state = "requested", !.at = a, !.seq = p.asked + 1]
    OBVIOUS
<1>2. PICK q : q = SetLease(p, l, d)
    OBVIOUS
<1>3. p.lease[l].state = "none" /\ n = [q EXCEPT !.tokens = @ - 1, !.asked = @ + 1]
    BY <1>1, <1>2 DEF Request
<1>4. LeaseOk(p.lease[l]) /\ ProdShape(p)
    BY DEF ProdOk
<1>5. LeaseStep(p.lease[l], d, r.part[l]) /\ ~Locks(d) /\ ~Locks(p.lease[l])
    BY <1>1, <1>3, <1>4, RequestedLease
<1>6. ProdShape(q) /\ q.lease = [p.lease EXCEPT ![l] = d] /\ q.locks = p.locks
    BY <1>2, <1>4, LeaseSet
<1>7. n \in [lease : {q.lease}, locks : {q.locks}, tokens : {n.tokens}, asked : {n.asked}]
    BY <1>3, <1>6 DEF ProdShape
<1>8. n.lease = q.lease /\ n.locks = q.locks
    BY <1>7
<1>9. q.locks \in SUBSET Leases
    BY <1>6 DEF ProdShape
<1>10. n \in [lease : {n.lease}, locks : SUBSET Leases, tokens : {n.tokens}, asked : {n.asked}]
    BY <1>7, <1>8, <1>9
<1>11. ProdShape(n)
    BY <1>6, <1>8, <1>10 DEF ProdShape
<1>12. \A k \in Leases : k \in n.locks <=> IF k = l THEN Locks(d) ELSE k \in p.locks
    BY <1>5, <1>6, <1>8 DEF ProdOk
<1> QED
    BY <1>5, <1>6, <1>8, <1>11, <1>12, OneLease

(* grant_local_completion                                                   *)
LEMMA GrantAdvances ==
    ASSUME NEW p, ProdOk(p), NEW l \in Leases, boundary + TTL \in Nat,
           NEW n \in GrantLocal(p, l), NEW r
    PROVE  Advances(p, n, r)
<1>1. PICK c : c = p.lease[l]
    OBVIOUS
<1>2. PICK e \in Nat : e = boundary + TTL
    OBVIOUS
<1>3. PICK d : d = [c EXCEPT !.local = Held(e), !.state = "partially_granted", !.due = TRUE]
    OBVIOUS
<1>4. c.state = "requested" /\ n = SetLease(p, l, d)
    BY <1>1, <1>2, <1>3 DEF GrantLocal
<1>5. LeaseOk(c)
    BY <1>1 DEF ProdOk
<1>6. LeaseStep(c, d, r.part[l]) /\ ~Locks(d) /\ ~Locks(c)
    BY <1>3, <1>4, <1>5, GrantedLease
<1> QED
    BY <1>1, <1>4, <1>6, SetAdvances

(* acknowledge_participant_grant                                            *)
LEMMA AckGrantAdvances ==
    ASSUME NEW p, ProdOk(p), NEW l \in Leases, NEW r, GrantOk(r.part[l]),
           NEW n \in AckGrant(p, l, r.part[l]), Valid(n)
    PROVE  Advances(p, n, r)
<1>1. PICK c : c = p.lease[l]
    OBVIOUS
<1>2. PICK g : g = r.part[l]
    OBVIOUS
<1>3. PICK d : d = Recomputed([c EXCEPT !.mirror = g])
    OBVIOUS
<1>4. /\ l \in Known(p) /\ g.state \in {"held", "prepared"}
      /\ c.mirror = NoGrant \/ c.mirror.state = "held"
      /\ n = SetLease(p, l, d)
    BY <1>1, <1>2, <1>3 DEF AckGrant
<1>5. LeaseOk(c) /\ Listed(c) /\ ProdShape(p)
    BY <1>1, <1>4 DEF ProdOk, Known, Listed
<1>s. n = SetLease(p, l, d) /\ ProdShape(p)
    BY <1>4, <1>5
<1>6. Listed(d) => ValidLease(d)
    BY <1>s, ValidSet
<1>7. LeaseStep(c, d, g) /\ (Locks(d) <=> Locks(c))
    BY <1>2, <1>3, <1>4, <1>5, <1>6, AcknowledgedLease
<1> QED
    BY <1>1, <1>2, <1>4, <1>7, SetAdvances

(* prepare_local_completion                                                 *)
LEMMA PrepareAdvances ==
    ASSUME NEW p, ProdOk(p), NEW l \in Leases, NEW n \in PrepareLocal(p, l), Valid(n), NEW r
    PROVE  Advances(p, n, r)
<1>1. PICK c : c = p.lease[l]
    OBVIOUS
<1>2. PICK q : q = [p EXCEPT !.locks = @ \cup {l}]
    OBVIOUS
<1>3. PICK d : d = Recomputed([c EXCEPT !.local = Next1(@, "prepared")])
    OBVIOUS
<1>4. /\ c.state \in {"fully_granted", "preparing"} /\ c.local.state = "held"
      /\ n = SetLease(q, l, d)
    BY <1>1, <1>2, <1>3 DEF PrepareLocal
<1>5. LeaseOk(c) /\ ProdShape(p)
    BY <1>1 DEF ProdOk
<1>6. q \in [lease : {p.lease}, locks : {p.locks \cup {l}}, tokens : {p.tokens}, asked : {p.asked}]
    BY <1>2, <1>5 DEF ProdShape
<1>7. q.lease = p.lease /\ q.locks = p.locks \cup {l} /\ q.tokens = p.tokens /\ q.asked = p.asked
    BY <1>6
<1>8. q.locks \in SUBSET Leases
    BY <1>5, <1>7 DEF ProdShape
<1>9. q \in [lease : {q.lease}, locks : SUBSET Leases, tokens : {q.tokens}, asked : {q.asked}]
    BY <1>6, <1>7, <1>8
<1>10. ProdShape(q)
    BY <1>5, <1>7, <1>9 DEF ProdShape
<1>11. /\ ProdShape(n) /\ n.lease = [p.lease EXCEPT ![l] = d] /\ n.lease[l] = d
       /\ n.locks = p.locks \cup {l}
    BY <1>4, <1>7, <1>10, LeaseSet
<1>12. Listed(d) => ValidLease(d)
    BY <1>11, ValidAt
<1>13. LeaseStep(c, d, r.part[l]) /\ Locks(d)
    BY <1>3, <1>4, <1>5, <1>12, PreparedLease
<1>14. \A k \in Leases : k \in n.locks <=> IF k = l THEN Locks(d) ELSE k \in p.locks
    BY <1>11, <1>13
<1> QED
    BY <1>1, <1>11, <1>13, <1>14, OneLease

(* activate_completion                                                      *)
LEMMA ActivateAdvances ==
    ASSUME NEW p, ProdOk(p), NEW l \in Leases, NEW n \in Activate(p, l), NEW r
    PROVE  Advances(p, n, r)
<1>1. PICK c : c = p.lease[l]
    OBVIOUS
<1>2. PICK d : d = [c EXCEPT !.state = "activated", !.cert = TRUE, !.due = FALSE]
    OBVIOUS
<1>3. c.state = "prepared_all" /\ Issues(c) /\ n = SetLease(p, l, d)
    BY <1>1, <1>2 DEF Activate, Issues
<1>4. LeaseOk(c)
    BY <1>1 DEF ProdOk
<1>5. LeaseStep(c, d, r.part[l]) /\ Locks(d) /\ Locks(c)
    BY <1>2, <1>3, <1>4, ActivatedLease
<1> QED
    BY <1>1, <1>3, <1>5, SetAdvances

(* acknowledge_participant_consumed                                         *)
LEMMA AckConsumedAdvances ==
    ASSUME NEW p, ProdOk(p), NEW l \in Leases, NEW r, GrantOk(r.part[l]),
           NEW n \in AckConsumed(p, l, r.part[l]), Valid(n)
    PROVE  Advances(p, n, r)
<1>1. PICK c : c = p.lease[l]
    OBVIOUS
<1>2. PICK g : g = r.part[l]
    OBVIOUS
<1>3. PICK d : d = [c EXCEPT !.mirror = g]
    OBVIOUS
<1>4. /\ c.state = "activated" /\ g.state = "consumed"
      /\ c.mirror.state = "prepared" /\ g.rev = c.mirror.rev + 1
      /\ n = SetLease(p, l, d)
    BY <1>1, <1>2, <1>3 DEF AckConsumed
<1>5. LeaseOk(c) /\ Listed(c) /\ ProdShape(p)
    BY <1>1, <1>4 DEF ProdOk, Listed
<1>s. n = SetLease(p, l, d) /\ ProdShape(p)
    BY <1>4, <1>5
<1>6. Listed(d) => ValidLease(d)
    BY <1>s, ValidSet
<1>7. LeaseStep(c, d, g) /\ (Locks(d) <=> Locks(c))
    BY <1>2, <1>3, <1>4, <1>5, <1>6, RecordedLease
<1> QED
    BY <1>1, <1>2, <1>4, <1>7, SetAdvances

(* acknowledge_participant_terminal                                         *)
LEMMA AckTerminalAdvances ==
    ASSUME NEW p, ProdOk(p), NEW l \in Leases, NEW r, GrantOk(r.part[l]),
           NEW n \in AckTerminal(p, l, r.part[l]), Valid(n)
    PROVE  Advances(p, n, r)
<1>1. PICK c : c = p.lease[l]
    OBVIOUS
<1>2. PICK g : g = r.part[l]
    OBVIOUS
<1>3. PICK d : d = ReleasedIfTerminal([c EXCEPT !.mirror = g])
    OBVIOUS
<1> DEFINE before == CASE g.state = "completed" -> {"consumed"}
                       [] g.state \in {"released", "expired"} -> {"held", "prepared"}
                       [] OTHER -> {}
<1>4. /\ l \in Known(p) /\ c.mirror.state \in before /\ g.rev = c.mirror.rev + 1
      /\ n = SetLease(p, l, d)
    BY <1>1, <1>2, <1>3 DEF AckTerminal
<1>5. g.state # "rejected" /\ c.mirror.state \in {"held", "prepared", "consumed"}
    BY <1>4
<1> HIDE DEF before
<1>6. LeaseOk(c) /\ Listed(c) /\ ProdShape(p)
    BY <1>1, <1>4 DEF ProdOk, Known, Listed
<1>s. n = SetLease(p, l, d) /\ ProdShape(p)
    BY <1>4, <1>6
<1>7. Listed(d) => ValidLease(d)
    BY <1>s, ValidSet
<1>8. LeaseStep(c, d, g) /\ (Locks(d) <=> Locks(c))
    BY <1>2, <1>3, <1>4, <1>5, <1>6, <1>7, RecordedLease
<1> QED
    BY <1>1, <1>2, <1>4, <1>8, SetAdvances

(* consume_local_completion_grant                                           *)
LEMMA ConsumeAdvances ==
    ASSUME NEW p, ProdOk(p), NEW l \in Leases, NEW n \in ConsumeLocal(p, l), NEW r
    PROVE  Advances(p, n, r)
<1>1. PICK c : c = p.lease[l]
    OBVIOUS
<1>2. PICK d : d = [c EXCEPT !.local = Next1(@, "consumed")]
    OBVIOUS
<1>3. c.state = "activated" /\ c.local.state = "prepared" /\ n = SetLease(p, l, d)
    BY <1>1, <1>2 DEF ConsumeLocal
<1>4. LeaseOk(c)
    BY <1>1 DEF ProdOk
<1>5. LeaseStep(c, d, r.part[l]) /\ Locks(d) /\ Locks(c)
    BY <1>2, <1>3, <1>4, ConsumedLease
<1> QED
    BY <1>1, <1>3, <1>5, SetAdvances

(* complete_local_completion_grant                                          *)
LEMMA CompleteAdvances ==
    ASSUME NEW p, ProdOk(p), NEW l \in Leases, NEW n \in CompleteLocal(p, l), Valid(n), NEW r
    PROVE  Advances(p, n, r)
<1>1. PICK c : c = p.lease[l]
    OBVIOUS
<1>2. PICK d : d = ReleasedIfTerminal([c EXCEPT !.local = Next1(@, "completed")])
    OBVIOUS
<1>3. l \in Known(p) /\ c.local.state = "consumed" /\ n = SetLease(Unlock(p, l), l, d)
    BY <1>1, <1>2 DEF CompleteLocal
<1>4. LeaseOk(c) /\ Listed(c)
    BY <1>1, <1>3 DEF ProdOk, Known, Listed
<1>5. n.lease[l] = d
    BY <1>3, UnlockAdvances
<1>6. Listed(d) => ValidLease(d)
    BY <1>5, ValidAt
<1>7. LeaseStep(c, d, r.part[l]) /\ ~Locks(d)
    BY <1>2, <1>3, <1>4, <1>6, CompletedLease
<1> QED
    BY <1>1, <1>3, <1>7, UnlockAdvances

(* abort_completion_acquisition                                             *)
LEMMA AbortAdvances ==
    ASSUME NEW p, ProdOk(p), NEW l \in Leases, NEW n \in Aborted(p, l), Valid(n), NEW r
    PROVE  Advances(p, n, r)
<1>1. PICK c : c = p.lease[l]
    OBVIOUS
<1>2. PICK h : h = IF c.local.state \in {"held", "prepared"}
                   THEN Next1(c.local, "released") ELSE c.local
    OBVIOUS
<1>3. PICK s \in {"released", "aborting"} :
        s = IF c.mirror = NoGrant \/ c.mirror.state \in Terminal THEN "released" ELSE "aborting"
    OBVIOUS
<1>4. PICK d : d = [c EXCEPT !.local = h, !.state = s]
    OBVIOUS
<1>5. c.state \in Pending /\ n = SetLease(Unlock(p, l), l, d)
    BY <1>1, <1>2, <1>3, <1>4 DEF Aborted
<1>6. LeaseOk(c)
    BY <1>1 DEF ProdOk
<1>7. n.lease[l] = d
    BY <1>5, UnlockAdvances
<1>8. Listed(d) => ValidLease(d)
    BY <1>7, ValidAt
<1>9. LeaseStep(c, d, r.part[l]) /\ ~Locks(d)
    BY <1>2, <1>4, <1>5, <1>6, <1>8, AbortedLease
<1> QED
    BY <1>1, <1>5, <1>9, UnlockAdvances

(* An archive commit.                                                       *)
LEMMA RetireAdvances ==
    ASSUME NEW p, ProdOk(p), NEW l \in Leases, NEW n \in Retired(p, l), NEW r
    PROVE  Advances(p, n, r)
<1>1. PICK c : c = p.lease[l]
    OBVIOUS
<1>2. PICK d : d = [c EXCEPT !.state = "gone"]
    OBVIOUS
<1>3. /\ c.state \in {"released", "expired"} /\ c.mirror.state \notin Live
      /\ n = SetLease(p, l, d)
    BY <1>1, <1>2 DEF Retired
<1>4. LeaseOk(c)
    BY <1>1 DEF ProdOk
<1>5. LeaseStep(c, d, r.part[l]) /\ ~Locks(d) /\ ~Locks(c)
    BY <1>2, <1>3, <1>4, RetiredLease
<1> QED
    BY <1>1, <1>3, <1>5, SetAdvances

(* expire_local_completion takes every lease that is due at once.           *)
LEMMA ExpireAdvances ==
    ASSUME NEW p, ProdOk(p), NEW n \in ExpiredLocal(p), Valid(n), NEW r
    PROVE  Advances(p, n, r)
<1> DEFINE due == {l \in Known(p) : p.lease[l].due /\ p.lease[l].local.expires <= boundary}
           back(c) == IF c.local.state \in {"held", "prepared"} THEN Next1(c.local, "expired")
                      ELSE c.local
           over(c) == [c EXCEPT !.local = IF @.state \in {"held", "prepared"}
                                          THEN Next1(@, "expired") ELSE @,
                                !.state = "expired", !.due = FALSE]
<1>1. PICK f : f = [l \in Leases |-> IF l \in due THEN over(p.lease[l]) ELSE p.lease[l]]
    OBVIOUS
<1>2. n = [p EXCEPT !.lease = f, !.locks = @ \ due]
    BY <1>1 DEF ExpiredLocal, ProdOk, ProdShape
<1>3. due \subseteq Leases /\ \A l \in due : Listed(p.lease[l]) /\ p.lease[l].due
    BY DEF Known, Listed
<1>4. ASSUME NEW l \in Leases
      PROVE  f[l] = IF l \in due THEN over(p.lease[l]) ELSE p.lease[l]
    BY <1>1
<1> HIDE DEF due
<1>5. n \in [lease : {f}, locks : {p.locks \ due}, tokens : {p.tokens}, asked : {p.asked}]
    BY <1>2 DEF ProdOk, ProdShape
<1>6. n.lease = f /\ n.locks = p.locks \ due
    BY <1>5
<1>7. n.locks \in SUBSET Leases /\ f = [l \in Leases |-> f[l]]
    BY <1>1, <1>6 DEF ProdOk, ProdShape
<1>8. ProdShape(n)
    <2>1. n \in [lease : {n.lease}, locks : SUBSET Leases, tokens : {n.tokens}, asked : {n.asked}]
        BY <1>5, <1>6, <1>7
    <2> QED
        BY <1>6, <1>7, <2>1 DEF ProdShape
<1>9. ASSUME NEW l \in due
      PROVE  LeaseStep(p.lease[l], f[l], r.part[l]) /\ ~Locks(f[l])
    <2>1. PICK c : c = p.lease[l]
        OBVIOUS
    <2>2. PICK h : h = back(c)
        OBVIOUS
    <2>3. LeaseOk(c) /\ Listed(c) /\ c.due /\ l \in Leases
        BY <1>3, <1>9, <2>1 DEF ProdOk
    <2>4. PICK d : d = [c EXCEPT !.local = h, !.state = "expired", !.due = FALSE]
        OBVIOUS
    <2>5. over(c) = d
        BY <2>2, <2>3, <2>4 DEF LeaseOk, LeaseShape
    <2>6. f[l] = d /\ n.lease[l] = d
        BY <1>4, <1>6, <1>9, <2>1, <2>3, <2>5
    <2>7. Listed(d) => ValidLease(d)
        BY <2>3, <2>6, ValidAt
    <2>8. LeaseStep(c, d, r.part[l]) /\ ~Locks(d)
        BY <2>2, <2>3, <2>4, <2>7, ExpiredLease
    <2> QED
        BY <2>1, <2>6, <2>8
<1>10. ASSUME NEW l \in Leases
       PROVE  LeaseStep(p.lease[l], f[l], r.part[l]) /\ (l \in n.locks <=> Locks(f[l]))
    <2>1. CASE l \in due
        BY <1>6, <1>9, <2>1
    <2>2. CASE l \notin due
        <3>1. f[l] = p.lease[l] /\ LeaseOk(p.lease[l]) /\ (l \in p.locks <=> Locks(p.lease[l]))
            BY <1>4, <2>2 DEF ProdOk
        <3> QED
            BY <1>6, <2>2, <3>1, SameLease
    <2> QED
        BY <2>1, <2>2
<1>11. n.locks = {l \in Leases : Locks(n.lease[l])}
    BY <1>6, <1>7, <1>10
<1>12. \A l \in Leases : LeaseOk(n.lease[l]) /\ LeaseStep(p.lease[l], n.lease[l], r.part[l])
    BY <1>6, <1>10 DEF LeaseStep
<1> QED
    BY <1>8, <1>11, <1>12 DEF Advances, ProdOk

----------------------------------------------------------------------------
(* The participant's root.                                                  *)
Accounts == {Target[l] : l \in Leases}

ResShape(r) ==
    /\ r \in [part : {r.part}, lock : {r.lock}, due : SUBSET Leases, units : {r.units},
              moved : {r.moved}]
    /\ r.part = [l \in Leases |-> r.part[l]]

ResOk(r) ==
    /\ ResShape(r)
    /\ \A l \in Leases : GrantOk(r.part[l])
    /\ r.due = {l \in Leases : r.part[l].state \in {"held", "prepared"}}

(* A step of the participant on a grant, c the lease as it sees it.         *)
PartStep(g, h, c, at) ==
    /\ GrantOk(h) /\ Past(g, h)
    /\ g.state \notin {"consumed", "completed"} /\ h.state \in {"consumed", "completed"} => c.cert
    /\ g.state # "released" /\ h.state = "released" =>
          c.state \in {"aborting", "released", "expired"}
    /\ g.state # "expired" /\ h.state = "expired" => h.expires <= at

(* A step of the participant, p the coordinator's root as it is seen.       *)
Takes(r, n, p) ==
    ResOk(n) /\ \A l \in Leases : PartStep(r.part[l], n.part[l], p.lease[l], boundary)

(* A grant that stays as it is takes a step too.                            *)
LEMMA SamePart ==
    ASSUME NEW g, GrantOk(g), NEW c, NEW at
    PROVE  PartStep(g, g, c, at)
BY PastItself DEF PartStep

(* A grant that moves on as its lease allows.                               *)
LEMMA NextPart ==
    ASSUME NEW g, GrantOk(g), NEW s, Follows(g, s), NEW c, NEW at,
           s = "consumed" => c.cert,
           s = "released" => c.state \in {"aborting", "released", "expired"},
           s = "expired" => g.expires <= at
    PROVE  PartStep(g, Next1(g, s), c, at) /\ Next1(g, s).state = s
<1>1. PICK h : h = Next1(g, s)
    OBVIOUS
<1>2. GrantOk(h) /\ Past(g, h) /\ h.state = s /\ h.expires = g.expires
    BY <1>1, NextGrant
<1>3. s = "completed" => g.state = "consumed"
    BY DEF Follows
<1> QED
    BY <1>1, <1>2, <1>3 DEF PartStep

(* A step of one grant is a step of the root.                               *)
LEMMA OnePart ==
    ASSUME NEW r, ResOk(r), NEW l \in Leases, NEW h, NEW p,
           PartStep(r.part[l], h, p.lease[l], boundary),
           NEW n, NEW m, NEW k, NEW u, NEW v,
           n \in [part : {m}, lock : {k}, due : {u}, units : {v}, moved : {r.moved}],
           m = [r.part EXCEPT ![l] = h],
           u = IF h.state \in {"held", "prepared"} THEN r.due \cup {l} ELSE r.due \ {l}
    PROVE  Takes(r, n, p)
<1>1. n.part = m /\ n.lock = k /\ n.due = u /\ n.units = v /\ n.moved = r.moved
    OBVIOUS
<1>2. m = [j \in Leases |-> m[j]]
    BY DEF ResOk, ResShape
<1>3. ASSUME NEW j \in Leases
      PROVE  m[j] = IF j = l THEN h ELSE r.part[j]
    BY DEF ResOk, ResShape
<1>4. u \in SUBSET Leases
    BY DEF ResOk
<1>5. n \in [part : {n.part}, lock : {n.lock}, due : SUBSET Leases, units : {n.units},
             moved : {n.moved}]
    BY <1>1, <1>4
<1>6. ResShape(n)
    BY <1>1, <1>2, <1>5 DEF ResShape
<1>7. ASSUME NEW j \in Leases
      PROVE  /\ PartStep(r.part[j], m[j], p.lease[j], boundary) /\ GrantOk(m[j])
             /\ j \in u <=> m[j].state \in {"held", "prepared"}
    <2>1. CASE j = l
        BY <1>3, <2>1 DEF PartStep
    <2>2. CASE j # l
        <3>1. GrantOk(r.part[j]) /\ (j \in r.due <=> r.part[j].state \in {"held", "prepared"})
            BY DEF ResOk
        <3>2. j \in u <=> j \in r.due
            BY <2>2
        <3> QED
            BY <1>3, <2>2, <3>1, <3>2, SamePart
    <2> QED
        BY <2>1, <2>2
<1>8. u = {j \in Leases : m[j].state \in {"held", "prepared"}}
    BY <1>4, <1>7
<1> QED
    BY <1>1, <1>6, <1>7, <1>8 DEF Takes, ResOk

(* GrantExternalParticipant                                                 *)
LEMMA GrantTakes ==
    ASSUME NEW r, ResOk(r), NEW l \in Leases, boundary + TTL \in Nat, NEW n \in GrantPart(r, l)
    PROVE  Takes(r, n, view.prod)
<1>1. PICK e \in Nat : e = boundary + TTL
    OBVIOUS
<1>2. PICK h : h = Held(e)
    OBVIOUS
<1>3. PICK m : m = [r.part EXCEPT ![l] = h]
    OBVIOUS
<1>4. PICK u : u = r.due \cup {l}
    OBVIOUS
<1>5. r.part[l] = NoGrant /\ n = [r EXCEPT !.part = m, !.due = u, !.units = @ + 1]
    BY <1>1, <1>2, <1>3, <1>4 DEF GrantPart
<1>6. n \in [part : {m}, lock : {r.lock}, due : {u}, units : {r.units + 1}, moved : {r.moved}]
    BY <1>5 DEF ResOk, ResShape
<1>7. GrantOk(h) /\ h.state = "held"
    BY <1>2, FreshGrants
<1>8. PartStep(r.part[l], h, view.prod.lease[l], boundary)
    BY <1>5, <1>7 DEF PartStep, Past
<1>9. u = IF h.state \in {"held", "prepared"} THEN r.due \cup {l} ELSE r.due \ {l}
    BY <1>4, <1>7
<1> QED
    BY <1>3, <1>6, <1>8, <1>9, OnePart

(* PrepareExternalParticipant                                               *)
LEMMA PrepareTakes ==
    ASSUME NEW r, ResOk(r), NEW l \in Leases, NEW n \in PreparePart(r, l)
    PROVE  Takes(r, n, view.prod)
<1>1. PICK g : g = r.part[l]
    OBVIOUS
<1>2. GrantOk(g) /\ (l \in r.due <=> g.state \in {"held", "prepared"})
    BY <1>1 DEF ResOk
<1>3. g.state = "held"
    BY <1>1 DEF PreparePart
<1>4. CASE n = [r EXCEPT !.part[l] = Next1(g, "rejected"), !.units = @ - 1, !.due = @ \ {l}]
    <2>1. PICK h : h = Next1(g, "rejected")
        OBVIOUS
    <2>2. PICK m : m = [r.part EXCEPT ![l] = h]
        OBVIOUS
    <2>3. PICK u : u = r.due \ {l}
        OBVIOUS
    <2>4. n = [r EXCEPT !.part = m, !.units = @ - 1, !.due = u]
        BY <1>4, <2>1, <2>2, <2>3
    <2>5. n \in [part : {m}, lock : {r.lock}, due : {u}, units : {r.units - 1}, moved : {r.moved}]
        BY <2>4 DEF ResOk, ResShape
    <2>6. Follows(g, "rejected")
        BY <1>3 DEF Follows
    <2>7. PartStep(g, h, view.prod.lease[l], boundary) /\ h.state = "rejected"
        BY <1>2, <2>1, <2>6, NextPart
    <2>8. u = IF h.state \in {"held", "prepared"} THEN r.due \cup {l} ELSE r.due \ {l}
        BY <2>3, <2>7
    <2> QED
        BY <1>1, <2>2, <2>5, <2>7, <2>8, OnePart
<1>5. CASE n = [r EXCEPT !.part[l] = Next1(g, "prepared"), !.lock[Target[l]] = {l}]
    <2>1. PICK h : h = Next1(g, "prepared")
        OBVIOUS
    <2>2. PICK m : m = [r.part EXCEPT ![l] = h]
        OBVIOUS
    <2>3. PICK k : k = [r.lock EXCEPT ![Target[l]] = {l}]
        OBVIOUS
    <2>4. n = [r EXCEPT !.part = m, !.lock = k]
        BY <1>5, <2>1, <2>2, <2>3
    <2>5. n \in [part : {m}, lock : {k}, due : {r.due}, units : {r.units}, moved : {r.moved}]
        BY <2>4 DEF ResOk, ResShape
    <2>6. Follows(g, "prepared")
        BY <1>3 DEF Follows
    <2>7. PartStep(g, h, view.prod.lease[l], boundary) /\ h.state = "prepared"
        BY <1>2, <2>1, <2>6, NextPart
    <2>8. r.due = IF h.state \in {"held", "prepared"} THEN r.due \cup {l} ELSE r.due \ {l}
        BY <1>2, <1>3, <2>7
    <2> QED
        BY <1>1, <2>2, <2>5, <2>7, <2>8, OnePart
<1> QED
    BY <1>1, <1>4, <1>5 DEF PreparePart

(* ConsumeExternalParticipant                                               *)
LEMMA ConsumeTakes ==
    ASSUME NEW r, ResOk(r), NEW l \in Leases, NEW n \in ConsumePart(r, l)
    PROVE  Takes(r, n, view.prod)
<1>1. PICK g : g = r.part[l]
    OBVIOUS
<1>2. GrantOk(g)
    BY <1>1 DEF ResOk
<1>3. PICK h : h = Next1(g, "consumed")
    OBVIOUS
<1>4. PICK m : m = [r.part EXCEPT ![l] = h]
    OBVIOUS
<1>5. PICK u : u = r.due \ {l}
    OBVIOUS
<1>6. /\ g.state = "prepared" /\ view.prod.lease[l].cert
      /\ n = [r EXCEPT !.part = m, !.due = u]
    BY <1>1, <1>3, <1>4, <1>5 DEF ConsumePart, Coordinated
<1>7. n \in [part : {m}, lock : {r.lock}, due : {u}, units : {r.units}, moved : {r.moved}]
    BY <1>6 DEF ResOk, ResShape
<1>8. Follows(g, "consumed")
    BY <1>6 DEF Follows
<1>9. PartStep(g, h, view.prod.lease[l], boundary) /\ h.state = "consumed"
    BY <1>2, <1>3, <1>6, <1>8, NextPart
<1>10. u = IF h.state \in {"held", "prepared"} THEN r.due \cup {l} ELSE r.due \ {l}
    BY <1>5, <1>9
<1> QED
    BY <1>1, <1>4, <1>7, <1>9, <1>10, OnePart

(* CompleteExternalParticipant                                              *)
LEMMA CompleteTakes ==
    ASSUME NEW r, ResOk(r), NEW l \in Leases, NEW n \in CompletePart(r, l)
    PROVE  Takes(r, n, view.prod)
<1>1. PICK g : g = r.part[l]
    OBVIOUS
<1>2. GrantOk(g) /\ (l \in r.due <=> g.state \in {"held", "prepared"})
    BY <1>1 DEF ResOk
<1>3. PICK h : h = Next1(g, "completed")
    OBVIOUS
<1>4. PICK m : m = [r.part EXCEPT ![l] = h]
    OBVIOUS
<1>5. PICK k : k = [r.lock EXCEPT ![Target[l]] = {}]
    OBVIOUS
<1>6. g.state = "consumed"
    BY <1>1 DEF CompletePart
<1>7. n = [r EXCEPT !.part[l] = Next1(@, "completed"), !.units = @ - 1, !.lock[Target[l]] = {}]
    BY DEF CompletePart
<1>8. m = [r.part EXCEPT ![l] = Next1(@, "completed")]
    BY <1>1, <1>3, <1>4 DEF ResOk, ResShape
<1>9. n = [r EXCEPT !.part = m, !.units = @ - 1, !.lock = k]
    BY <1>5, <1>7, <1>8
<1>10. n \in [part : {m}, lock : {k}, due : {r.due}, units : {r.units - 1}, moved : {r.moved}]
    BY <1>9 DEF ResOk, ResShape
<1>11. Follows(g, "completed")
    BY <1>6 DEF Follows
<1>12. PartStep(g, h, view.prod.lease[l], boundary) /\ h.state = "completed"
    BY <1>2, <1>3, <1>11, NextPart
<1>13. r.due = IF h.state \in {"held", "prepared"} THEN r.due \cup {l} ELSE r.due \ {l}
    BY <1>2, <1>6, <1>12
<1> QED
    BY <1>1, <1>4, <1>10, <1>12, <1>13, OnePart

(* ReleaseExternalParticipant                                               *)
LEMMA ReleaseTakes ==
    ASSUME NEW r, ResOk(r), NEW l \in Leases, NEW n \in ReleasePart(r, l)
    PROVE  Takes(r, n, view.prod)
<1>1. PICK g : g = r.part[l]
    OBVIOUS
<1>2. GrantOk(g)
    BY <1>1 DEF ResOk
<1>3. PICK h : h = Next1(g, "released")
    OBVIOUS
<1>4. PICK m : m = [r.part EXCEPT ![l] = h]
    OBVIOUS
<1>5. PICK k : k = [r.lock EXCEPT ![Target[l]] = {}]
    OBVIOUS
<1>6. PICK u : u = r.due \ {l}
    OBVIOUS
<1>7. /\ g.state \in {"held", "prepared", "rejected"}
      /\ view.prod.lease[l].state \in {"aborting", "released", "expired"}
      /\ n = [r EXCEPT !.part = m, !.units = @ - 1, !.lock = k, !.due = u]
    BY <1>1, <1>3, <1>4, <1>5, <1>6 DEF ReleasePart, Coordinated
<1>8. n \in [part : {m}, lock : {k}, due : {u}, units : {r.units - 1}, moved : {r.moved}]
    BY <1>7 DEF ResOk, ResShape
<1>9. Follows(g, "released")
    BY <1>7 DEF Follows
<1>10. PartStep(g, h, view.prod.lease[l], boundary) /\ h.state = "released"
    BY <1>2, <1>3, <1>7, <1>9, NextPart
<1>11. u = IF h.state \in {"held", "prepared"} THEN r.due \cup {l} ELSE r.due \ {l}
    BY <1>6, <1>10
<1> QED
    BY <1>1, <1>4, <1>8, <1>10, <1>11, OnePart

(* ExpireExternalParticipants takes every grant that is due at once.        *)
LEMMA ExpireTakes ==
    ASSUME NEW r, ResOk(r), NEW n \in ExpiredParts(r)
    PROVE  Takes(r, n, view.prod)
<1> DEFINE due == {l \in r.due : r.part[l].expires <= boundary}
<1>1. PICK m : m = [l \in Leases |-> IF l \in due THEN Next1(r.part[l], "expired") ELSE r.part[l]]
    OBVIOUS
<1>2. PICK k : k = [t \in DOMAIN r.lock |-> IF \E l \in due : Target[l] = t THEN {} ELSE r.lock[t]]
    OBVIOUS
<1>3. PICK u : u = r.due \ due
    OBVIOUS
<1>4. n = [r EXCEPT !.part = m, !.units = @ - Cardinality(due), !.due = u, !.lock = k]
    BY <1>1, <1>2, <1>3 DEF ExpiredParts, ResOk, ResShape
<1>5. due \subseteq r.due /\ \A l \in due : r.part[l].expires <= boundary
    OBVIOUS
<1>6. PICK v : v = r.units - Cardinality(due)
    OBVIOUS
<1> HIDE DEF due
<1>7. n \in [part : {m}, lock : {k}, due : {u}, units : {v}, moved : {r.moved}]
    BY <1>4, <1>6 DEF ResOk, ResShape
<1>8. n.part = m /\ n.lock = k /\ n.due = u /\ n.units = v /\ n.moved = r.moved
    BY <1>7
<1>9. u \in SUBSET Leases /\ m = [l \in Leases |-> m[l]]
    BY <1>1, <1>3 DEF ResOk
<1>10. n \in [part : {n.part}, lock : {n.lock}, due : SUBSET Leases, units : {n.units},
              moved : {n.moved}]
    BY <1>7, <1>8, <1>9
<1>11. ResShape(n)
    BY <1>8, <1>9, <1>10 DEF ResShape
<1>12. ASSUME NEW l \in Leases
       PROVE  /\ PartStep(r.part[l], m[l], view.prod.lease[l], boundary) /\ GrantOk(m[l])
              /\ l \in u <=> m[l].state \in {"held", "prepared"}
    <2>1. PICK g : g = r.part[l]
        OBVIOUS
    <2>2. GrantOk(g) /\ (l \in r.due <=> g.state \in {"held", "prepared"})
        BY <2>1 DEF ResOk
    <2>3. CASE l \in due
        <3>1. Follows(g, "expired") /\ g.expires <= boundary
            BY <1>5, <2>1, <2>2, <2>3 DEF Follows
        <3>2. m[l] = Next1(g, "expired")
            BY <1>1, <2>1, <2>3
        <3>3. PartStep(g, m[l], view.prod.lease[l], boundary) /\ m[l].state = "expired"
            BY <2>2, <3>1, <3>2, NextPart
        <3> QED
            BY <1>3, <2>1, <2>3, <3>3 DEF PartStep
    <2>4. CASE l \notin due
        <3>1. m[l] = g
            BY <1>1, <2>1, <2>4
        <3> QED
            BY <1>3, <2>1, <2>2, <2>4, <3>1, SamePart
    <2> QED
        BY <2>3, <2>4
<1>13. u = {l \in Leases : m[l].state \in {"held", "prepared"}}
    BY <1>9, <1>12
<1> QED
    BY <1>8, <1>11, <1>12, <1>13 DEF Takes, ResOk

(* An account that moves on for another reason leaves the grants alone.     *)
LEMMA MoveTakes ==
    ASSUME NEW r, ResOk(r), NEW s, NEW n, n = [r EXCEPT !.moved = @ \cup s]
    PROVE  Takes(r, n, view.prod)
<1>1. n \in [part : {r.part}, lock : {r.lock}, due : {r.due}, units : {r.units},
             moved : {n.moved}]
    BY DEF ResOk, ResShape
<1>2. n.part = r.part /\ n.lock = r.lock /\ n.due = r.due /\ n.units = r.units
    BY <1>1
<1>3. r.due \in SUBSET Leases
    BY DEF ResOk
<1>4. n \in [part : {n.part}, lock : {n.lock}, due : SUBSET Leases, units : {n.units},
             moved : {n.moved}]
    BY <1>1, <1>2, <1>3
<1>5. ResShape(n)
    BY <1>2, <1>4 DEF ResOk, ResShape
<1>6. ResOk(n)
    BY <1>2, <1>5 DEF ResOk
<1> QED
    BY <1>2, <1>6, SamePart DEF Takes, ResOk

----------------------------------------------------------------------------
(* Both roots, and what each saw of the other when the boundary began.      *)

(* The lease c and the participant's grant g, with the views vc and vg of   *)
(* both that their owners read.                                             *)
Agree(c, g, vc, vg, at) ==
    /\ Past(c.mirror, g) /\ Past(vg, g)
    /\ vc.cert => c.cert
    /\ vc.local.state \in Terminal => c.local.state \in Terminal
    /\ g.state \in {"consumed", "completed"} => c.cert
    /\ g.state = "released" => c.local.state \in Terminal
    /\ g.state = "expired" => g.expires <= at

CoordinatorInv ==
    /\ boundary \in Nat
    /\ ProdOk(prod) /\ ProdOk(view.prod)
    /\ ResOk(res) /\ ResOk(view.res)
    /\ \A l \in Leases :
          Agree(prod.lease[l], res.part[l], view.prod.lease[l], view.res.part[l], boundary)

(* They agree after a step of the coordinator, which can only learn what    *)
(* the participant had when the boundary began.                             *)
LEMMA AgreeCoordinator ==
    ASSUME NEW c, NEW d, NEW g, NEW vc, NEW vg, NEW at, Agree(c, g, vc, vg, at), LeaseStep(c, d, vg)
    PROVE  Agree(d, g, vc, vg, at)
<1>1. Past(d.mirror, g)
    BY DEF Agree, LeaseStep
<1> QED
    BY <1>1 DEF Agree, LeaseStep

(* They agree after a step of the participant: it spends its grant for a    *)
(* certificate and releases it for a lease that was over, and both last.    *)
LEMMA AgreeParticipant ==
    ASSUME NEW c, NEW g, NEW h, NEW vc, NEW vg, NEW at, Agree(c, g, vc, vg, at),
           PartStep(g, h, vc, at), LeaseOk(c), LeaseOk(vc), GrantOk(g), GrantOk(vg)
    PROVE  Agree(c, h, vc, vg, at)
<1>1. GrantOk(c.mirror) /\ GrantOk(h) /\ Past(g, h) /\ Past(c.mirror, g) /\ Past(vg, g)
    BY DEF Agree, PartStep, LeaseOk, LeaseShape
<1>2. Past(c.mirror, h) /\ Past(vg, h)
    BY <1>1, PastFollows
<1>3. ASSUME h.state \in {"consumed", "completed"}
      PROVE  c.cert
    BY <1>3 DEF Agree, PartStep
<1>4. ASSUME h.state = "released"
      PROVE  c.local.state \in Terminal
    <2>1. CASE g.state = "released"
        BY <2>1 DEF Agree
    <2>2. CASE g.state # "released"
        <3>1. vc.state \in {"aborting", "released", "expired"}
            BY <1>4, <2>2 DEF PartStep
        <3>2. vc.local.state \in Terminal
            BY <3>1 DEF LeaseOk
        <3> QED
            BY <3>2 DEF Agree
    <2> QED
        BY <2>1, <2>2
<1>5. ASSUME h.state = "expired"
      PROVE  h.expires <= at
    <2>1. CASE g.state = "expired"
        <3>1. g # NoGrant
            BY <2>1 DEF NoGrant
        <3>2. g.expires = h.expires
            BY <1>1, <3>1 DEF Past
        <3> QED
            BY <2>1, <3>2 DEF Agree
    <2>2. CASE g.state # "expired"
        BY <1>5, <2>2 DEF PartStep
    <2> QED
        BY <2>1, <2>2
<1>6. /\ vc.cert => c.cert
      /\ vc.local.state \in Terminal => c.local.state \in Terminal
    BY DEF Agree
<1> QED
    BY <1>2, <1>3, <1>4, <1>5, <1>6 DEF Agree

(* They agree with themselves when a boundary ends.                         *)
LEMMA AgreeBoundary ==
    ASSUME NEW c, NEW g, NEW vc, NEW vg, NEW at \in Nat, NEW later \in Nat, at <= later,
           Agree(c, g, vc, vg, at), GrantOk(g)
    PROVE  Agree(c, g, c, g, later)
<1>1. Past(g, g) /\ g.expires \in Nat
    BY PastItself DEF GrantOk, Grant
<1>2. g.state = "expired" => g.expires <= later
    BY <1>1 DEF Agree
<1> QED
    BY <1>1, <1>2 DEF Agree

(* Nothing is asked at the start.                                           *)
LEMMA CoordinatorStarts == Init => CoordinatorInv
<1> SUFFICES ASSUME Init PROVE CoordinatorInv
    OBVIOUS
<1>1. view.prod = prod /\ view.res = res /\ boundary = 0
    BY DEF Init
<1>2. /\ prod = [lease |-> [l \in Leases |-> Unasked], locks |-> {}, tokens |-> Tokens, asked |-> 0]
      /\ res = [part |-> [l \in Leases |-> NoGrant],
                lock |-> [t \in {Target[l] : l \in Leases} |-> {}],
                due |-> {}, units |-> 0, moved |-> {}]
    BY DEF Init
<1>3. /\ prod.lease = [l \in Leases |-> Unasked] /\ prod.locks = {}
      /\ res.part = [l \in Leases |-> NoGrant] /\ res.due = {}
    BY <1>2
<1>4. \A l \in Leases : prod.lease[l] = Unasked /\ res.part[l] = NoGrant
    BY <1>3
<1>5. LeaseOk(Unasked) /\ GrantOk(NoGrant)
    BY UnaskedOk, FreshGrants
<1>6. ~Locks(Unasked) /\ NoGrant.state = "none"
    BY DEF Locks, Listed, Unasked, NoGrant
<1>7. ProdOk(prod)
    <2>1. ProdShape(prod)
        BY <1>2 DEF ProdShape
    <2> QED
        BY <1>3, <1>4, <1>5, <1>6, <2>1 DEF ProdOk
<1>8. ResOk(res)
    <2>1. ResShape(res)
        BY <1>2 DEF ResShape
    <2> QED
        BY <1>3, <1>4, <1>5, <1>6, <2>1 DEF ResOk
<1>9. Agree(Unasked, NoGrant, Unasked, NoGrant, 0)
    <2>1. Unasked.mirror = NoGrant
        BY DEF Unasked
    <2> QED
        BY <1>6, <2>1 DEF Agree, Past
<1> QED
    BY <1>1, <1>4, <1>7, <1>8, <1>9 DEF CoordinatorInv

(* A step of the coordinator keeps the invariant.                           *)
LEMMA CoordinateKeeps ==
    ASSUME CoordinatorInv, Advances(prod, prod', view.res), UNCHANGED <<res, view, boundary, now>>
    PROVE  CoordinatorInv'
<1>1. ProdOk(prod')
    BY DEF Advances
<1>2. ASSUME NEW l \in Leases
      PROVE  Agree(prod'.lease[l], res.part[l], view.prod.lease[l], view.res.part[l], boundary)
    <2>1. LeaseStep(prod.lease[l], prod'.lease[l], view.res.part[l])
        BY DEF Advances
    <2>2. Agree(prod.lease[l], res.part[l], view.prod.lease[l], view.res.part[l], boundary)
        BY DEF CoordinatorInv
    <2> QED
        BY <2>1, <2>2, AgreeCoordinator
<1> QED
    BY <1>1, <1>2 DEF CoordinatorInv

(* A step of the participant keeps it.                                      *)
LEMMA ParticipateKeeps ==
    ASSUME CoordinatorInv, Takes(res, res', view.prod), UNCHANGED <<prod, view, boundary, now>>
    PROVE  CoordinatorInv'
<1>1. ResOk(res')
    BY DEF Takes
<1>2. ASSUME NEW l \in Leases
      PROVE  Agree(prod.lease[l], res'.part[l], view.prod.lease[l], view.res.part[l], boundary)
    <2>1. PartStep(res.part[l], res'.part[l], view.prod.lease[l], boundary)
        BY DEF Takes
    <2>2. Agree(prod.lease[l], res.part[l], view.prod.lease[l], view.res.part[l], boundary)
        BY DEF CoordinatorInv
    <2>3. /\ LeaseOk(prod.lease[l]) /\ LeaseOk(view.prod.lease[l])
          /\ GrantOk(res.part[l]) /\ GrantOk(view.res.part[l])
        BY DEF CoordinatorInv, ProdOk, ResOk
    <2> QED
        BY <2>1, <2>2, <2>3, AgreeParticipant
<1> QED
    BY <1>1, <1>2 DEF CoordinatorInv

(* Every step keeps it.                                                     *)
LEMMA CoordinatorSteps ==
    ASSUME CoordinatorAssumption, CoordinatorInv, [Next]_vars
    PROVE  CoordinatorInv'
<1>1. ProdOk(prod) /\ ResOk(res) /\ boundary \in Nat
    BY DEF CoordinatorInv
<1>2. boundary + TTL \in Nat
    BY <1>1 DEF CoordinatorAssumption
<1>3. \A l \in Leases : GrantOk(view.res.part[l])
    BY DEF CoordinatorInv, ResOk
<1>4. ASSUME NEW l \in Leases, RequestLease(l) PROVE CoordinatorInv'
    BY <1>1, <1>4, RequestAdvances, CoordinateKeeps DEF RequestLease, Coordinate
<1>5. ASSUME NEW l \in Leases, GrantLease(l) PROVE CoordinatorInv'
    BY <1>1, <1>2, <1>5, GrantAdvances, CoordinateKeeps DEF GrantLease, Coordinate
<1>6. ASSUME NEW l \in Leases, AcknowledgeGrant(l) PROVE CoordinatorInv'
    BY <1>1, <1>3, <1>6, AckGrantAdvances, CoordinateKeeps DEF AcknowledgeGrant, Coordinate
<1>7. ASSUME NEW l \in Leases, PrepareLease(l) PROVE CoordinatorInv'
    BY <1>1, <1>7, PrepareAdvances, CoordinateKeeps DEF PrepareLease, Coordinate
<1>8. ASSUME NEW l \in Leases, ActivateLease(l) PROVE CoordinatorInv'
    BY <1>1, <1>8, ActivateAdvances, CoordinateKeeps DEF ActivateLease, Coordinate
<1>9. ASSUME NEW l \in Leases, AcknowledgeConsumed(l) PROVE CoordinatorInv'
    BY <1>1, <1>3, <1>9, AckConsumedAdvances, CoordinateKeeps DEF AcknowledgeConsumed, Coordinate
<1>10. ASSUME NEW l \in Leases, AcknowledgeTerminal(l) PROVE CoordinatorInv'
    BY <1>1, <1>3, <1>10, AckTerminalAdvances, CoordinateKeeps DEF AcknowledgeTerminal, Coordinate
<1>11. ASSUME NEW l \in Leases, StartExecution(l) PROVE CoordinatorInv'
    BY <1>1, <1>11, ConsumeAdvances, CoordinateKeeps DEF StartExecution, Coordinate
<1>12. ASSUME NEW l \in Leases, SettleExecution(l) PROVE CoordinatorInv'
    BY <1>1, <1>12, CompleteAdvances, CoordinateKeeps DEF SettleExecution, Coordinate
<1>13. ASSUME NEW l \in Leases, AbortLease(l) PROVE CoordinatorInv'
    BY <1>1, <1>13, AbortAdvances, CoordinateKeeps DEF AbortLease, Coordinate
<1>14. ASSUME NEW l \in Leases, RetireLease(l) PROVE CoordinatorInv'
    BY <1>1, <1>14, RetireAdvances, CoordinateKeeps DEF RetireLease, Coordinate
<1>15. ASSUME ExpireLeases PROVE CoordinatorInv'
    BY <1>1, <1>15, ExpireAdvances, CoordinateKeeps DEF ExpireLeases, Coordinate
<1>16. ASSUME NEW l \in Leases, GrantParticipant(l) PROVE CoordinatorInv'
    BY <1>1, <1>2, <1>16, GrantTakes, ParticipateKeeps DEF GrantParticipant, Participate
<1>17. ASSUME NEW l \in Leases, PrepareParticipant(l) PROVE CoordinatorInv'
    BY <1>1, <1>17, PrepareTakes, ParticipateKeeps DEF PrepareParticipant, Participate
<1>18. ASSUME NEW l \in Leases, ConsumeParticipant(l) PROVE CoordinatorInv'
    BY <1>1, <1>18, ConsumeTakes, ParticipateKeeps DEF ConsumeParticipant, Participate
<1>19. ASSUME NEW l \in Leases, CompleteParticipant(l) PROVE CoordinatorInv'
    BY <1>1, <1>19, CompleteTakes, ParticipateKeeps DEF CompleteParticipant, Participate
<1>20. ASSUME NEW l \in Leases, ReleaseParticipant(l) PROVE CoordinatorInv'
    BY <1>1, <1>20, ReleaseTakes, ParticipateKeeps DEF ReleaseParticipant, Participate
<1>21. ASSUME ExpireParticipants PROVE CoordinatorInv'
    BY <1>1, <1>21, ExpireTakes, ParticipateKeeps DEF ExpireParticipants, Participate
<1>22. ASSUME NEW t \in DOMAIN res.lock, MoveTarget(t) PROVE CoordinatorInv'
    <2>1. PICK s : s = {l \in LiveParts(res) : Target[l] = t}
        OBVIOUS
    <2>2. res' = [res EXCEPT !.moved = @ \cup s] /\ UNCHANGED <<prod, view, boundary, now>>
        BY <1>22, <2>1 DEF MoveTarget, Participate
    <2>3. Takes(res, res', view.prod)
        BY <1>1, <2>2, MoveTakes
    <2> QED
        BY <2>2, <2>3, ParticipateKeeps
<1>23. ASSUME NEW later \in {0, 1}, EndBoundary(later) PROVE CoordinatorInv'
    <2>1. /\ view' = [prod |-> prod, res |-> res] /\ prod' = prod /\ res' = res
          /\ boundary' = boundary \/ boundary' = boundary + 1
        BY <1>23 DEF EndBoundary
    <2>2. view'.prod = prod /\ view'.res = res
        BY <2>1
    <2>3. boundary' \in Nat /\ boundary <= boundary'
        BY <1>1, <2>1
    <2>4. ASSUME NEW l \in Leases
          PROVE  Agree(prod.lease[l], res.part[l], prod.lease[l], res.part[l], boundary')
        <3>1. /\ Agree(prod.lease[l], res.part[l], view.prod.lease[l], view.res.part[l], boundary)
              /\ GrantOk(res.part[l])
            BY DEF CoordinatorInv, ResOk
        <3> QED
            BY <1>1, <2>3, <3>1, AgreeBoundary
    <2> QED
        BY <1>1, <2>1, <2>2, <2>3, <2>4 DEF CoordinatorInv
<1>24. ASSUME UNCHANGED vars PROVE CoordinatorInv'
    BY <1>24 DEF vars, CoordinatorInv
<1> QED
    BY <1>4, <1>5, <1>6, <1>7, <1>8, <1>9, <1>10, <1>11, <1>12, <1>13, <1>14, <1>15, <1>16,
       <1>17, <1>18, <1>19, <1>20, <1>21, <1>22, <1>23, <1>24 DEF Next, Carried

----------------------------------------------------------------------------
(* What the runs check follows from the invariant.                          *)

LEMMA CoordinatorImplies == CoordinatorInv => CoordinatorSound
<1> SUFFICES ASSUME CoordinatorInv PROVE CoordinatorSound
    OBVIOUS
<1>1. ASSUME NEW l \in Leases
      PROVE  /\ LeaseOk(prod.lease[l]) /\ LeaseShape(prod.lease[l]) /\ GrantOk(res.part[l])
             /\ Agree(prod.lease[l], res.part[l], view.prod.lease[l], view.res.part[l], boundary)
    BY DEF CoordinatorInv, ProdOk, ResOk, LeaseOk
<1>2. TypeOK
    <2>1. ASSUME NEW l \in Leases
          PROVE  /\ prod.lease[l].state \in Pending \cup {"none", "activated", "released", "expired", "gone"}
                 /\ prod.lease[l].local.state \in Live \cup Terminal \cup {"none"}
                 /\ res.part[l].state \in Live \cup Terminal \cup {"none"}
        <3>1. prod.lease[l].local \in Grant /\ res.part[l] \in Grant
              /\ prod.lease[l].state \in LeaseStates
            BY <1>1 DEF LeaseShape, GrantOk
        <3> QED
            BY <3>1 DEF Grant, GrantStates, LeaseStates
    <2>2. prod.locks = {l \in Known(prod) : prod.lease[l].local.state \in {"prepared", "consumed"}}
        BY DEF CoordinatorInv, ProdOk, Known, Locks, Listed
    <2>3. res.due = {l \in Leases : res.part[l].state \in {"held", "prepared"}}
        BY DEF CoordinatorInv, ResOk
    <2> QED
        BY <2>1, <2>2, <2>3 DEF TypeOK
<1>3. MirrorIsPast
    BY <1>1 DEF MirrorIsPast, Agree, Past
<1>4. CertificateBacked
    BY <1>1 DEF CertificateBacked, Known, LeaseOk, Listed
<1>5. EndedFreesLocal
    BY <1>1 DEF EndedFreesLocal, Known, LeaseOk, Live, Terminal
<1>6. SpentUnderCertificate
    BY <1>1 DEF SpentUnderCertificate, Agree
<1>7. LeavesAfterParticipant
    BY <1>1 DEF LeavesAfterParticipant, LeaseOk, Agree, Past
<1> QED
    BY <1>2, <1>3, <1>4, <1>5, <1>6, <1>7 DEF CoordinatorSound

(* An activation finds both grants prepared: the participant's was when it  *)
(* was recorded, it is not spent for there was no certificate, not released *)
(* for the lease was never over, and the guard says it is not expired.      *)
LEMMA ActivatesPrepared ==
    ASSUME CoordinatorAssumption, CoordinatorInv, NEW l \in Leases,
           Issues(prod.lease[l])
    PROVE  prod.lease[l].local.state = "prepared" /\ res.part[l].state = "prepared"
<1>1. PICK c : c = prod.lease[l]
    OBVIOUS
<1>2. PICK g : g = res.part[l]
    OBVIOUS
<1>3. c.state = "prepared_all" /\ ~(boundary >= Deadline(c.mirror))
    BY <1>1 DEF Issues
<1>4. /\ LeaseOk(c) /\ GrantOk(g) /\ boundary \in Nat
      /\ Agree(c, g, view.prod.lease[l], view.res.part[l], boundary)
    BY <1>1, <1>2 DEF CoordinatorInv, ProdOk, ResOk
<1>5. /\ c.local.state = "prepared" /\ c.mirror.rev >= 2 /\ ~c.cert
      /\ c.mirror \in Grant /\ c.mirror.state # "rejected" /\ GrantOk(c.mirror)
    BY <1>3, <1>4 DEF LeaseOk, LeaseShape, Listed, ValidLease
<1>6. /\ c.mirror.rev <= g.rev /\ (c.mirror.rev = g.rev => c.mirror = g)
      /\ c.mirror.expires = g.expires
    BY <1>4, <1>5 DEF Agree, Past, NoGrant
<1>7. g.rev \in Nat /\ g.rev >= 2 /\ c.mirror.expires \in Nat
    BY <1>4, <1>5, <1>6 DEF GrantOk, Grant
<1>8. g.state \notin {"none", "held"}
    BY <1>4, <1>7 DEF GrantOk
<1>9. g.state # "rejected"
    <2>1. SUFFICES ASSUME g.state = "rejected" PROVE FALSE
        OBVIOUS
    <2>2. g.rev = 2
        BY <1>4, <2>1 DEF GrantOk
    <2>3. c.mirror.rev = g.rev
        BY <1>5, <1>6, <2>2 DEF Grant
    <2> QED
        BY <1>5, <1>6, <2>1, <2>3
<1>10. g.state \notin {"consumed", "completed"}
    BY <1>4, <1>5 DEF Agree
<1>11. g.state # "released"
    BY <1>4, <1>5 DEF Agree, Terminal
<1>12. g.state # "expired"
    <2>1. SUFFICES ASSUME g.state = "expired" PROVE FALSE
        OBVIOUS
    <2>2. g.expires <= boundary
        BY <1>4, <2>1 DEF Agree
    <2>3. Guard \in Nat /\ Guard >= 1
        BY DEF CoordinatorAssumption
    <2>4. Deadline(c.mirror) <= g.expires
        BY <1>6, <1>7, <2>3 DEF Deadline
    <2>5. Deadline(c.mirror) \in Int
        BY <1>7, <2>3 DEF Deadline
    <2> QED
        BY <1>3, <1>4, <1>6, <1>7, <2>2, <2>4, <2>5
<1>13. g.state \in GrantStates
    BY <1>4 DEF GrantOk, Grant
<1>14. g.state = "prepared"
    BY <1>8, <1>9, <1>10, <1>11, <1>12, <1>13 DEF GrantStates, Live, Terminal
<1> QED
    BY <1>1, <1>2, <1>5, <1>14

(* A step that issues a certificate finds it so.                            *)
LEMMA CoordinateActivates ==
    ASSUME CoordinatorAssumption, CoordinatorInv, Advances(prod, prod', view.res)
    PROVE  ActivatesBoth
<1> SUFFICES ASSUME NEW l \in Leases, prod'.lease[l].cert, ~prod.lease[l].cert
             PROVE  prod.lease[l].local.state = "prepared" /\ res.part[l].state = "prepared"
    BY DEF ActivatesBoth
<1>1. Issues(prod.lease[l])
    BY DEF Advances, LeaseStep
<1> QED
    BY <1>1, ActivatesPrepared

(* Every step of the system does.                                           *)
LEMMA StepsActivateBoth ==
    ASSUME CoordinatorAssumption, CoordinatorInv, [Next]_vars
    PROVE  ActivatesBoth
<1>1. ProdOk(prod) /\ ResOk(res) /\ boundary \in Nat
    BY DEF CoordinatorInv
<1>2. boundary + TTL \in Nat
    BY <1>1 DEF CoordinatorAssumption
<1>3. \A l \in Leases : GrantOk(view.res.part[l])
    BY DEF CoordinatorInv, ResOk
<1>4. ASSUME NEW l \in Leases, RequestLease(l) PROVE ActivatesBoth
    BY <1>1, <1>4, RequestAdvances, CoordinateActivates DEF RequestLease, Coordinate
<1>5. ASSUME NEW l \in Leases, GrantLease(l) PROVE ActivatesBoth
    BY <1>1, <1>2, <1>5, GrantAdvances, CoordinateActivates DEF GrantLease, Coordinate
<1>6. ASSUME NEW l \in Leases, AcknowledgeGrant(l) PROVE ActivatesBoth
    BY <1>1, <1>3, <1>6, AckGrantAdvances, CoordinateActivates DEF AcknowledgeGrant, Coordinate
<1>7. ASSUME NEW l \in Leases, PrepareLease(l) PROVE ActivatesBoth
    BY <1>1, <1>7, PrepareAdvances, CoordinateActivates DEF PrepareLease, Coordinate
<1>8. ASSUME NEW l \in Leases, ActivateLease(l) PROVE ActivatesBoth
    BY <1>1, <1>8, ActivateAdvances, CoordinateActivates DEF ActivateLease, Coordinate
<1>9. ASSUME NEW l \in Leases, AcknowledgeConsumed(l) PROVE ActivatesBoth
    BY <1>1, <1>3, <1>9, AckConsumedAdvances, CoordinateActivates
       DEF AcknowledgeConsumed, Coordinate
<1>10. ASSUME NEW l \in Leases, AcknowledgeTerminal(l) PROVE ActivatesBoth
    BY <1>1, <1>3, <1>10, AckTerminalAdvances, CoordinateActivates
       DEF AcknowledgeTerminal, Coordinate
<1>11. ASSUME NEW l \in Leases, StartExecution(l) PROVE ActivatesBoth
    BY <1>1, <1>11, ConsumeAdvances, CoordinateActivates DEF StartExecution, Coordinate
<1>12. ASSUME NEW l \in Leases, SettleExecution(l) PROVE ActivatesBoth
    BY <1>1, <1>12, CompleteAdvances, CoordinateActivates DEF SettleExecution, Coordinate
<1>13. ASSUME NEW l \in Leases, AbortLease(l) PROVE ActivatesBoth
    BY <1>1, <1>13, AbortAdvances, CoordinateActivates DEF AbortLease, Coordinate
<1>14. ASSUME NEW l \in Leases, RetireLease(l) PROVE ActivatesBoth
    BY <1>1, <1>14, RetireAdvances, CoordinateActivates DEF RetireLease, Coordinate
<1>15. ASSUME ExpireLeases PROVE ActivatesBoth
    BY <1>1, <1>15, ExpireAdvances, CoordinateActivates DEF ExpireLeases, Coordinate
<1>16. ASSUME UNCHANGED prod PROVE ActivatesBoth
    BY <1>16 DEF ActivatesBoth
<1>17. ASSUME NEW l \in Leases,
              \/ GrantParticipant(l) \/ PrepareParticipant(l) \/ ConsumeParticipant(l)
              \/ CompleteParticipant(l) \/ ReleaseParticipant(l)
       PROVE  UNCHANGED prod
    BY <1>17 DEF GrantParticipant, PrepareParticipant, ConsumeParticipant, CompleteParticipant,
                 ReleaseParticipant, Participate
<1>18. ASSUME \/ ExpireParticipants \/ UNCHANGED vars
              \/ \E t \in DOMAIN res.lock : MoveTarget(t)
              \/ \E later \in {0, 1} : EndBoundary(later)
       PROVE  UNCHANGED prod
    BY <1>18 DEF ExpireParticipants, MoveTarget, EndBoundary, Participate, vars
<1> QED
    BY <1>4, <1>5, <1>6, <1>7, <1>8, <1>9, <1>10, <1>11, <1>12, <1>13, <1>14, <1>15, <1>16,
       <1>17, <1>18 DEF Next, Carried

(* Coordinator and participant agree as far as messages allow, for any      *)
(* number of leases, any capacity, lifetime and guard of one boundary or    *)
(* more: the mirror is a version the participant had, a certificate has the *)
(* local grant behind it, nothing is spent without one, what is over holds  *)
(* no units, and a lease leaves only when both sides are done.              *)
THEOREM SidesAgree == CoordinatorAssumption => (Spec => []CoordinatorSound)
<1> SUFFICES ASSUME CoordinatorAssumption PROVE Spec => []CoordinatorSound
    OBVIOUS
<1>1. Init => CoordinatorInv
    BY CoordinatorStarts
<1>2. CoordinatorInv /\ [Next]_vars => CoordinatorInv'
    BY CoordinatorSteps
<1>3. CoordinatorInv => CoordinatorSound
    BY CoordinatorImplies
<1> QED
    BY <1>1, <1>2, <1>3, PTL DEF Spec

(* A lease is activated only while both plugins really hold a prepared      *)
(* grant, though the coordinator sees the participant's a boundary late:    *)
(* activate_completion keeps its distance from the deadline.                *)
THEOREM ActivationHoldsBoth == CoordinatorAssumption => (Spec => [][ActivatesBoth]_vars)
<1> SUFFICES ASSUME CoordinatorAssumption PROVE Spec => [][ActivatesBoth]_vars
    OBVIOUS
<1>1. Init => CoordinatorInv
    BY CoordinatorStarts
<1>2. CoordinatorInv /\ [Next]_vars => CoordinatorInv'
    BY CoordinatorSteps
<1>3. CoordinatorInv /\ [Next]_vars => [ActivatesBoth]_vars
    BY StepsActivateBoth
<1> QED
    BY <1>1, <1>2, <1>3, PTL DEF Spec

============================================================================
