------------------------------ MODULE CrmProofs ------------------------------
(***************************************************************************)
(* What a conversation's opportunities may never come to, for every set of *)
(* judges and any number of requests, messages and failures. The writes    *)
(* are first taken apart: what a patch, a ruling, a cascade, an insertion  *)
(* and the three parts of a judgment leave. What an opportunity's status   *)
(* and its qualification may be together (Sound) is the invariant they     *)
(* rest on, with the types.                                                *)
(***************************************************************************)
EXTENDS Opportunities, SequenceTheorems, FiniteSetTheorems, WellFoundedInduction, TLAPS

Crm == [opps : Seq(Opp), lead : Ternary, ruled : BOOLEAN]

Sound(c) ==
  \A i \in DOMAIN c.opps : /\ c.opps[i].status = "open" => c.opps[i].qualified # "no"
                           /\ c.opps[i].status = "won" => c.opps[i].qualified = "yes"

LEMMA MaxIn ==
  ASSUME NEW n \in Nat, NEW S \in SUBSET (1..n), S # {}
  PROVE  Max(S) \in S
  <1>. DEFINE T == {n - x : x \in S}
  <1>1. T \subseteq Nat /\ T # {}
    <2>1. \A x \in S : n - x \in Nat OBVIOUS
    <2>2. PICK x \in S : TRUE OBVIOUS
    <2>3. n - x \in T BY <2>2
    <2>. QED BY <2>1, <2>3
  <1>. HIDE DEF T
  <1>2. PICK t \in T : \A u \in T : ~(<<u, t>> \in OpToRel(<, Nat))
    BY <1>1, NatLessThanWellFounded, WFMin
  <1>3. PICK x \in S : t = n - x BY DEF T
  <1>4. \A y \in S : x >= y
    <2>. SUFFICES ASSUME NEW y \in S, ~(x >= y) PROVE FALSE
      OBVIOUS
    <2>1. n - y \in T /\ n - y < t BY <1>3 DEF T
    <2>. QED BY <1>1, <1>2, <2>1 DEF OpToRel
  <1>. QED BY <1>4 DEF Max

LEMMA Kernel ==
  ASSUME NEW o \in Opp, NEW p \in Patches
  PROVE  /\ Next_(o, p) \in Opp /\ Next_(o, p).set = o.set
         /\ Next_(o, p).status = IF p.status # "keep" THEN p.status
                                 ELSE IF p.qualified = "no" THEN "lost" ELSE o.status
         /\ Next_(o, p).qualified = IF Next_(o, p).status = "won" THEN "yes"
                                    ELSE IF p.qualified # "keep" THEN p.qualified
                                    ELSE IF o.status = "lost" /\ Next_(o, p).status = "open" /\ o.qualified = "no"
                                         THEN "unknown" ELSE o.qualified
  BY DEF Next_, Opp, Patches, Status, Ternary

LEMMA LatestIn ==
  ASSUME NEW n \in Nat, NEW S \in SUBSET (1..n)
  PROVE  /\ Latest(S) \in 0..n
         /\ S = {} => Latest(S) = 0
         /\ S # {} => Latest(S) \in S
  <1>1. CASE S = {} BY <1>1 DEF Latest
  <1>2. CASE S # {}
    <2>1. Latest(S) = Max(S) BY <1>2 DEF Latest
    <2>2. Latest(S) \in S BY <1>2, <2>1, MaxIn, Zenon
    <2>3. \A x \in S : x \in 0..n /\ x \in 1..n OBVIOUS
    <2>. QED BY <1>2, <2>2, <2>3, Zenon
  <1>. QED BY <1>1, <1>2

LEMMA Columns_ ==
  ASSUME NEW c \in Crm
  PROVE  /\ Len(c.opps) \in Nat /\ DOMAIN c.opps = 1..Len(c.opps)
         /\ \A i \in DOMAIN c.opps : c.opps[i] \in Opp
         /\ \A wanted : WithStatus(c, wanted) \in SUBSET (1..Len(c.opps))
  BY LenProperties, ElementOfSeq DEF Crm, WithStatus

\* What a patch and a ruling leave of c.
PatchLeaves(c, i, p, new) ==
  LET next == Next_(c.opps[i], p) IN
  /\ new \in Crm /\ Len(new.opps) = Len(c.opps) /\ DOMAIN new.opps = DOMAIN c.opps
  /\ \A k \in DOMAIN c.opps : k # i => new.opps[k] = c.opps[k]
  /\ new.opps[i].status = next.status /\ new.opps[i].qualified = next.qualified
  /\ new.lead = IF next.status = "won" \/ p.qualified \in {"yes", "no"} THEN "yes" ELSE c.lead

RulingLeaves(c, value, new) ==
  /\ new \in Crm /\ new.opps = c.opps /\ new.lead = value

LEMMA Patched ==
  ASSUME NEW c \in Crm, NEW i \in DOMAIN c.opps, NEW p \in Patches, NEW person \in BOOLEAN
  PROVE  PatchLeaves(c, i, p, ApplyOppPatch(c, i, p, person))
  <1>. DEFINE o == c.opps[i]
              next == Next_(o, p)
              row == Logged(o, next, person)
              patched == [c EXCEPT !.opps[i] = row]
              new == ApplyOppPatch(c, i, p, person)
  <1>1. o \in Opp /\ i \in 1..Len(c.opps) BY Columns_
  <1>2. next \in Opp BY <1>1, Kernel
  <1>3. row \in Opp /\ row.status = next.status /\ row.qualified = next.qualified
    <2>. HIDE DEF o, next
    <2>. QED BY <1>1, <1>2 DEF Logged, Opp
  <1>4. c.opps \in Seq(Opp) BY DEF Crm
  <1>. HIDE DEF next, row
  <1>5. patched.opps = [c.opps EXCEPT ![i] = row] BY DEF Crm
  <1>6. /\ patched.opps \in Seq(Opp) /\ Len(patched.opps) = Len(c.opps)
        /\ patched.opps[i] = row /\ \A k \in DOMAIN c.opps : k # i => patched.opps[k] = c.opps[k]
    BY <1>1, <1>3, <1>4, <1>5, ExceptSeq, Columns_
  <1>7. patched \in Crm /\ patched.lead = c.lead
    BY <1>5, <1>6 DEF Crm
  <1>8. new = IF next.status = "won" \/ p.qualified \in {"yes", "no"} THEN ApplyThreadLead(patched, "yes", person) ELSE patched
    BY DEF ApplyOppPatch, next, row
  <1>. HIDE DEF patched, new
  <1>9. /\ new \in Crm /\ new.opps = patched.opps
        /\ new.lead = IF next.status = "won" \/ p.qualified \in {"yes", "no"} THEN "yes" ELSE c.lead
    <2>1. CASE next.status = "won" \/ p.qualified \in {"yes", "no"}
      <3>1. new = ApplyThreadLead(patched, "yes", person) BY <1>8, <2>1
      <3>. QED BY <1>7, <2>1, <3>1 DEF ApplyThreadLead, Crm, Ternary
    <2>2. CASE ~(next.status = "won" \/ p.qualified \in {"yes", "no"})
      BY <1>7, <1>8, <2>2 DEF Crm
    <2>. QED BY <2>1, <2>2
  <1>10. DOMAIN new.opps = DOMAIN c.opps BY <1>6, <1>9, <1>7, Columns_
  <1>. QED BY <1>3, <1>6, <1>9, <1>10 DEF PatchLeaves, new, next

LEMMA Ruling ==
  ASSUME NEW c \in Crm, NEW value \in Ternary, NEW person \in BOOLEAN
  PROVE  RulingLeaves(c, value, ApplyThreadLead(c, value, person))
  BY DEF ApplyThreadLead, RulingLeaves, Crm

LEMMA Cascade ==
  ASSUME NEW c \in Crm
  PROVE  LET new == CascadeNotLead(c)
         IN /\ new \in Crm /\ Len(new.opps) = Len(c.opps) /\ DOMAIN new.opps = DOMAIN c.opps
            /\ \A i \in DOMAIN c.opps : /\ c.opps[i].status # "open" => new.opps[i] = c.opps[i]
                                        /\ c.opps[i].status = "open" =>
                                             /\ new.opps[i].status = "lost"
                                             /\ new.opps[i].qualified = c.opps[i].qualified
            /\ new.lead = c.lead
  <1>. DEFINE opps == [i \in DOMAIN c.opps |->
                         IF c.opps[i].status = "open" THEN [c.opps[i] EXCEPT !.status = "lost"] ELSE c.opps[i]]
              new == CascadeNotLead(c)
  <1>1. new = [c EXCEPT !.opps = opps] BY DEF CascadeNotLead
  <1>2. opps \in Seq(Opp) /\ Len(opps) = Len(c.opps) /\ DOMAIN opps = DOMAIN c.opps
    <2>1. ASSUME NEW i \in DOMAIN c.opps PROVE opps[i] \in Opp
      <3>1. c.opps[i] \in Opp BY Columns_
      <3>. QED BY <3>1 DEF Opp, Status
    <2>2. opps \in [1..Len(c.opps) -> Opp] BY <2>1, Columns_
    <2>3. Len(c.opps) \in Nat BY Columns_
    <2>. HIDE DEF opps
    <2>4. opps \in Seq(Opp) BY <2>2, <2>3, SeqDef
    <2>. QED BY <2>2, <2>3, <2>4, LenProperties, Columns_
  <1>3. new \in Crm /\ new.opps = opps /\ new.lead = c.lead
    <2>. HIDE DEF opps, new
    <2>. QED BY <1>1, <1>2 DEF Crm
  <1>4. ASSUME NEW i \in DOMAIN c.opps
        PROVE  /\ c.opps[i].status # "open" => opps[i] = c.opps[i]
               /\ c.opps[i].status = "open" => opps[i].status = "lost" /\ opps[i].qualified = c.opps[i].qualified
    <2>. DEFINE o == c.opps[i]
    <2>1. opps[i] = IF o.status = "open" THEN [o EXCEPT !.status = "lost"] ELSE o OBVIOUS
    <2>2. o \in Opp BY Columns_
    <2>. HIDE DEF o, opps
    <2>3. o.status # "open" => opps[i] = o BY <2>1
    <2>4. o.status = "open" => opps[i].status = "lost" /\ opps[i].qualified = o.qualified
      BY <2>1, <2>2 DEF Opp
    <2>. QED BY <2>3, <2>4 DEF o
  <1>. QED BY <1>2, <1>3, <1>4

LEMMA Inserted ==
  ASSUME NEW c \in Crm, NEW qualified \in Ternary
  PROVE  LET new == InsertOpportunity(c, qualified)
         IN /\ new \in Crm /\ Len(new.opps) = Len(c.opps) + 1 /\ DOMAIN new.opps = DOMAIN c.opps \cup {Len(c.opps) + 1}
            /\ \A i \in DOMAIN c.opps : new.opps[i] = c.opps[i]
            /\ new.opps[Len(c.opps) + 1] = [status |-> "open", qualified |-> qualified, set |-> {}]
            /\ new.lead = c.lead
  <1>. DEFINE row == [status |-> "open", qualified |-> qualified, set |-> {}]
              new == InsertOpportunity(c, qualified)
  <1>1. row \in Opp BY DEF Opp, Status
  <1>2. new = [c EXCEPT !.opps = Append(c.opps, row)] BY DEF InsertOpportunity
  <1>3. c.opps \in Seq(Opp) BY DEF Crm
  <1>. HIDE DEF row, new
  <1>4. /\ Append(c.opps, row) \in Seq(Opp) /\ Len(Append(c.opps, row)) = Len(c.opps) + 1
        /\ \A i \in 1..Len(c.opps) : Append(c.opps, row)[i] = c.opps[i]
        /\ Append(c.opps, row)[Len(c.opps) + 1] = row
    BY <1>1, <1>3, AppendProperties
  <1>5. new \in Crm /\ new.opps = Append(c.opps, row) /\ new.lead = c.lead
    BY <1>2, <1>4 DEF Crm
  <1>6. DOMAIN new.opps = 1..(Len(c.opps) + 1) /\ DOMAIN c.opps = 1..Len(c.opps) /\ Len(c.opps) \in Nat
    BY <1>4, <1>5, Columns_
  <1>. QED BY <1>4, <1>5, <1>6 DEF row, new

-----------------------------------------------------------------------------
(* What each write keeps. *)

LEMMA OpenIs ==
  ASSUME NEW c \in Crm
  PROVE  /\ OpenOpp(c) \in 0..Len(c.opps) /\ LastClosedOpp(c) \in 0..Len(c.opps)
         /\ OpenOpp(c) = 0 <=> OpenOf(c) = {}
         /\ OpenOpp(c) # 0 => OpenOpp(c) \in DOMAIN c.opps /\ c.opps[OpenOpp(c)].status = "open"
         /\ LastClosedOpp(c) # 0 =>
              LastClosedOpp(c) \in DOMAIN c.opps /\ c.opps[LastClosedOpp(c)].status \in {"won", "lost"}
  <1>. DEFINE open == OpenOf(c)
              closed == WithStatus(c, {"won", "lost"})
  <1>1. /\ open \in SUBSET (1..Len(c.opps)) /\ closed \in SUBSET (1..Len(c.opps))
        /\ Len(c.opps) \in Nat /\ 0 \notin open /\ 0 \notin closed
    BY Columns_ DEF OpenOf
  <1>2. \A i \in open : i \in DOMAIN c.opps /\ c.opps[i].status = "open"
    BY DEF OpenOf, WithStatus
  <1>3. \A i \in closed : i \in DOMAIN c.opps /\ c.opps[i].status \in {"won", "lost"}
    BY DEF WithStatus
  <1>4. OpenOpp(c) = Latest(open) /\ LastClosedOpp(c) = Latest(closed)
    BY DEF OpenOpp, LastClosedOpp
  <1>. HIDE DEF open, closed
  <1>5. Latest(open) \in 0..Len(c.opps) /\ (open = {} => Latest(open) = 0) /\ (open # {} => Latest(open) \in open)
    BY <1>1, LatestIn
  <1>6. Latest(closed) \in 0..Len(c.opps) /\ (closed = {} => Latest(closed) = 0) /\ (closed # {} => Latest(closed) \in closed)
    BY <1>1, LatestIn
  <1>7. OpenOpp(c) = 0 <=> open = {} BY <1>1, <1>4, <1>5, Zenon
  <1>8. OpenOpp(c) # 0 => OpenOpp(c) \in open BY <1>4, <1>5, Zenon
  <1>9. LastClosedOpp(c) # 0 => LastClosedOpp(c) \in closed BY <1>4, <1>6, Zenon
  <1>. QED BY <1>2, <1>3, <1>4, <1>5, <1>6, <1>7, <1>8, <1>9, Zenon DEF open

LEMMA SafePatch ==
  ASSUME NEW c \in Crm, Sound(c), NEW i \in DOMAIN c.opps, NEW p \in Patches, NEW person \in BOOLEAN,
         c.opps[i].status # "deleted", ~Refused(c.opps[i], p)
  PROVE  LET new == ApplyOppPatch(c, i, p, person)
         IN Sound(new) /\ OpenOf(new) \subseteq (IF p.status = "open" THEN OpenOf(c) \cup {i} ELSE OpenOf(c))
  <1>. DEFINE new == ApplyOppPatch(c, i, p, person)
              o == c.opps[i]
              next == Next_(o, p)
  <1>1. o \in Opp /\ p.status \in {"keep", "open", "won", "lost"} /\ p.qualified \in Ternary \cup {"keep"}
    BY Columns_ DEF Patches
  <1>2. /\ next \in Opp
        /\ next.status = IF p.status # "keep" THEN p.status ELSE IF p.qualified = "no" THEN "lost" ELSE o.status
        /\ next.qualified = IF next.status = "won" THEN "yes"
                            ELSE IF p.qualified # "keep" THEN p.qualified
                            ELSE IF o.status = "lost" /\ next.status = "open" /\ o.qualified = "no"
                                 THEN "unknown" ELSE o.qualified
    BY <1>1, Kernel
  <1>3. /\ DOMAIN new.opps = DOMAIN c.opps
        /\ \A k \in DOMAIN c.opps : k # i => new.opps[k] = c.opps[k]
        /\ new.opps[i].status = next.status /\ new.opps[i].qualified = next.qualified
    BY Patched DEF PatchLeaves
  <1>4. /\ o.status = "open" => o.qualified # "no"
        /\ o.status = "won" => o.qualified = "yes"
    BY DEF Sound
  <1>5. o.status # "deleted" /\ ~(p.qualified = "no" /\ (p.status \notin {"keep", "lost"} \/ o.status = "won"))
    BY DEF Refused
  <1>. HIDE DEF new, next, o
  <1>6. /\ next.status = "open" => next.qualified # "no"
        /\ next.status = "won" => next.qualified = "yes"
    BY <1>1, <1>2, <1>4, <1>5 DEF Opp, Status
  <1>7. Sound(new) BY <1>3, <1>6 DEF Sound
  <1>8. p.status # "open" /\ next.status = "open" => o.status = "open" BY <1>2
  <1>9. OpenOf(new) \subseteq (IF p.status = "open" THEN OpenOf(c) \cup {i} ELSE OpenOf(c))
    BY <1>3, <1>8 DEF OpenOf, WithStatus, o
  <1>. QED BY <1>7, <1>9 DEF new

LEMMA SafeCascade ==
  ASSUME NEW c \in Crm, Sound(c)
  PROVE  Sound(CascadeNotLead(c)) /\ OpenOf(CascadeNotLead(c)) = {}
  <1>. DEFINE new == CascadeNotLead(c)
  <1>1. /\ DOMAIN new.opps = DOMAIN c.opps
        /\ \A i \in DOMAIN c.opps : /\ c.opps[i].status # "open" => new.opps[i] = c.opps[i]
                                    /\ c.opps[i].status = "open" => new.opps[i].status = "lost"
    BY Cascade
  <1>. HIDE DEF new
  <1>3. ASSUME NEW i \in DOMAIN c.opps
        PROVE  /\ new.opps[i].status # "open"
               /\ new.opps[i].status = "won" => new.opps[i].qualified = "yes"
    <2>1. CASE c.opps[i].status = "open"
      <3>1. new.opps[i].status = "lost" BY <1>1, <2>1
      <3>. QED BY <3>1
    <2>2. CASE c.opps[i].status # "open"
      <3>1. new.opps[i] = c.opps[i] BY <1>1, <2>2, Zenon
      <3>2. c.opps[i].status = "won" => c.opps[i].qualified = "yes" BY DEF Sound
      <3>. QED BY <2>2, <3>1, <3>2
    <2>. QED BY <2>1, <2>2
  <1>. QED BY <1>1, <1>3 DEF Sound, OpenOf, WithStatus, new

LEMMA SafeInsert ==
  ASSUME NEW c \in Crm, Sound(c), NEW qualified \in {"unknown", "yes"}
  PROVE  /\ Sound(InsertOpportunity(c, qualified))
         /\ OpenOf(InsertOpportunity(c, qualified)) = OpenOf(c) \cup {Len(c.opps) + 1}
  <1>. DEFINE new == InsertOpportunity(c, qualified)
              n == Len(c.opps) + 1
  <1>0. qualified \in Ternary BY DEF Ternary
  <1>1. /\ DOMAIN new.opps = DOMAIN c.opps \cup {n}
        /\ \A i \in DOMAIN c.opps : new.opps[i] = c.opps[i]
        /\ new.opps[n] = [status |-> "open", qualified |-> qualified, set |-> {}]
    BY <1>0, Inserted
  <1>2. DOMAIN c.opps = 1..Len(c.opps) /\ Len(c.opps) \in Nat BY Columns_
  <1>3. new.opps[n].status = "open" /\ new.opps[n].qualified = qualified
    <2>. HIDE DEF new, n
    <2>. QED BY <1>1
  <1>. HIDE DEF new
  <1>. QED BY <1>1, <1>2, <1>3 DEF Sound, OpenOf, WithStatus, new

LEMMA FewOpen ==
  ASSUME NEW c \in Crm, NEW new, Cardinality(OpenOf(c)) <= 1,
         OpenOf(new) \subseteq OpenOf(c) \/ \E x : OpenOf(new) \subseteq {x}
  PROVE  Cardinality(OpenOf(new)) <= 1
  <1>1. IsFiniteSet(OpenOf(c))
    <2>1. OpenOf(c) \in SUBSET (1..Len(c.opps)) /\ Len(c.opps) \in Nat BY Columns_ DEF OpenOf
    <2>2. IsFiniteSet(1..Len(c.opps)) BY <2>1, FS_Interval
    <2>. QED BY <2>1, <2>2, FS_Subset
  <1>2. CASE OpenOf(new) \subseteq OpenOf(c)
    <2>1. Cardinality(OpenOf(new)) <= Cardinality(OpenOf(c)) BY <1>1, <1>2, FS_Subset
    <2>2. Cardinality(OpenOf(c)) \in Nat /\ IsFiniteSet(OpenOf(new)) BY <1>1, <1>2, FS_CardinalityType, FS_Subset
    <2>3. Cardinality(OpenOf(new)) \in Nat BY <2>2, FS_CardinalityType
    <2>. QED BY <2>1, <2>2, <2>3
  <1>3. ASSUME NEW x, OpenOf(new) \subseteq {x} PROVE Cardinality(OpenOf(new)) <= 1
    <2>1. IsFiniteSet({x}) /\ Cardinality({x}) = 1 BY FS_Singleton
    <2>. QED BY <1>3, <2>1, FS_Subset
  <1>. QED BY <1>2, <1>3

-----------------------------------------------------------------------------
(* The three parts of a judgment's write. *)

Sticky_ == [lead : BOOLEAN, set : SUBSET {"status", "qualified"}]

LEMMA StickyIs ==
  ASSUME TypeOK, NEW s, s.open = OpenOpp(crm), s.closed = LastClosedOpp(crm)
  PROVE  /\ Sticky(s) \in Sticky_ /\ Sticky(s).lead = crm.ruled
         /\ s.open # 0 => Sticky(s).set = crm.opps[s.open].set
         /\ s.open = 0 /\ s.closed # 0 => Sticky(s).set = crm.opps[s.closed].set
  <1>. DEFINE i == IF s.open # 0 THEN s.open ELSE s.closed
              set == IF i = 0 THEN {} ELSE crm.opps[i].set
  <1>1. crm \in Crm BY DEF TypeOK, Crm
  <1>2. i # 0 => i \in DOMAIN crm.opps BY <1>1, OpenIs
  <1>3. i # 0 => crm.opps[i] \in Opp BY <1>1, <1>2, Columns_
  <1>4. set \in SUBSET {"status", "qualified"} BY <1>3 DEF Opp
  <1>5. Sticky(s) = [lead |-> crm.ruled, set |-> set] BY DEF Sticky
  <1>6. crm.ruled \in BOOLEAN BY <1>1 DEF Crm
  <1>7. /\ s.open # 0 => set = crm.opps[s.open].set
        /\ s.open = 0 /\ s.closed # 0 => set = crm.opps[s.closed].set
    OBVIOUS
  <1>. HIDE DEF set
  <1>. QED BY <1>4, <1>5, <1>6, <1>7 DEF Sticky_

LEMMA TriageDoes ==
  ASSUME NEW c \in Crm, Sound(c), NEW d \in Decision, NEW sticky \in Sticky_
  PROVE  LET new == ApplyTriage(c, d, sticky)
         IN /\ new \in Crm /\ Sound(new) /\ Len(new.opps) = Len(c.opps) /\ DOMAIN new.opps = DOMAIN c.opps
            /\ OpenOf(new) \subseteq OpenOf(c)
            /\ \A i \in DOMAIN c.opps : c.opps[i].status # "open" => new.opps[i] = c.opps[i]
            /\ \A i \in DOMAIN c.opps : new.opps[i].qualified = c.opps[i].qualified
            /\ \A i \in DOMAIN c.opps : c.opps[i].status = "open" =>
                 new.opps[i] = c.opps[i] \/ new.opps[i].status = "lost"
            /\ sticky.lead => new = c
            /\ new.opps = c.opps \/ (new.lead = "no" /\ ~sticky.lead /\ OpenOf(new) = {})
            /\ new.lead # c.lead => ~sticky.lead
  <1>. DEFINE new == ApplyTriage(c, d, sticky)
              value == IF d.triage = "lead" THEN "yes" ELSE "no"
  <1>1. CASE sticky.lead \/ d.triage = "none" \/ (d.triage = "not_lead" /\ Sold(c))
    <2>1. new = c BY <1>1 DEF ApplyTriage
    <2>. HIDE DEF new
    <2>. QED BY <2>1 DEF new
  <1>2. CASE ~(sticky.lead \/ d.triage = "none" \/ (d.triage = "not_lead" /\ Sold(c)))
    <2>1. new = ApplyLeadUpdate(c, value, FALSE) BY <1>2 DEF ApplyTriage
    <2>2. value \in Ternary BY DEF Ternary
    <2>. HIDE DEF new
    <2>3. CASE value = "no"
      <3>. DEFINE b == CascadeNotLead(c)
      <3>1. new = ApplyThreadLead(b, "no", FALSE) BY <2>1, <2>3 DEF ApplyLeadUpdate
      <3>2. /\ b \in Crm /\ Len(b.opps) = Len(c.opps) /\ DOMAIN b.opps = DOMAIN c.opps
            /\ \A i \in DOMAIN c.opps : c.opps[i].status # "open" => b.opps[i] = c.opps[i]
            /\ \A i \in DOMAIN c.opps : c.opps[i].status = "open" => b.opps[i].status = "lost"
            /\ \A i \in DOMAIN c.opps : b.opps[i].qualified = c.opps[i].qualified
            /\ b.lead = c.lead
        BY Cascade
      <3>3. Sound(b) /\ OpenOf(b) = {} BY SafeCascade
      <3>. HIDE DEF b
      <3>4. new \in Crm /\ new.opps = b.opps /\ new.lead = "no"
        <4>1. RulingLeaves(b, "no", new) BY <2>2, <2>3, <3>1, <3>2, Ruling
        <4>. QED BY <4>1 DEF RulingLeaves
      <3>5. Sound(new) /\ OpenOf(new) = {} BY <3>3, <3>4 DEF Sound, OpenOf, WithStatus
      <3>. QED BY <1>2, <3>2, <3>4, <3>5 DEF new
    <2>4. CASE value # "no"
      <3>1. new = ApplyThreadLead(c, value, FALSE) BY <2>1, <2>4 DEF ApplyLeadUpdate
      <3>2. new \in Crm /\ new.opps = c.opps
        <4>1. RulingLeaves(c, value, new) BY <2>2, <3>1, Ruling
        <4>. QED BY <4>1 DEF RulingLeaves
      <3>3. Sound(new) /\ OpenOf(new) = OpenOf(c) BY <3>2 DEF Sound, OpenOf, WithStatus
      <3>. QED BY <1>2, <3>2, <3>3 DEF new
    <2>. QED BY <2>3, <2>4
  <1>. QED BY <1>1, <1>2

LEMMA PatchOpenDoes ==
  ASSUME NEW c \in Crm, Sound(c), NEW d \in Decision, NEW sticky \in Sticky_
  PROVE  LET new == PatchOpen(c, d, sticky)
             i == OpenOpp(c)
         IN /\ new \in Crm /\ Sound(new) /\ Len(new.opps) = Len(c.opps) /\ DOMAIN new.opps = DOMAIN c.opps
            /\ OpenOf(new) \subseteq OpenOf(c)
            /\ \A k \in DOMAIN c.opps : c.opps[k].status # "open" \/ k # i => new.opps[k] = c.opps[k]
            /\ new = c \/
                 /\ i # 0
                 /\ "status" \in sticky.set /\ new.opps[i].status # c.opps[i].status =>
                      new.opps[i].qualified # c.opps[i].qualified
                 /\ "qualified" \in sticky.set /\ new.opps[i].qualified # c.opps[i].qualified =>
                      new.opps[i].status # c.opps[i].status
                 /\ new.lead # c.lead => new.lead = "yes" /\ new.opps[i].qualified # "unknown"
  <1>. DEFINE new == PatchOpen(c, d, sticky)
              i == OpenOpp(c)
              p == [status |-> IF "status" \in sticky.set THEN "keep" ELSE d.status,
                    qualified |-> IF "qualified" \in sticky.set THEN "keep" ELSE d.qualified]
  <1>1. CASE i = 0 \/ Refused(c.opps[i], p)
    <2>1. new = c BY <1>1 DEF PatchOpen
    <2>. HIDE DEF new
    <2>. QED BY <2>1 DEF new
  <1>2. CASE i # 0 /\ ~Refused(c.opps[i], p)
    <2>1. new = ApplyOppPatch(c, i, p, FALSE) BY <1>2 DEF PatchOpen
    <2>2. i \in DOMAIN c.opps /\ c.opps[i].status = "open" BY <1>2, OpenIs
    <2>3. /\ p \in Patches /\ p.status # "open"
          /\ "status" \in sticky.set => p.status = "keep"
          /\ "qualified" \in sticky.set => p.qualified = "keep"
          /\ p.qualified # "unknown"
      BY DEF Decision, Patches, Ternary
    <2>. DEFINE next == Next_(c.opps[i], p)
    <2>. HIDE DEF new, p, i
    <2>4. Sound(new) /\ OpenOf(new) \subseteq OpenOf(c) BY <1>2, <2>1, <2>2, <2>3, SafePatch
    <2>5. /\ new \in Crm /\ Len(new.opps) = Len(c.opps) /\ DOMAIN new.opps = DOMAIN c.opps
          /\ \A k \in DOMAIN c.opps : k # i => new.opps[k] = c.opps[k]
          /\ new.opps[i].status = next.status /\ new.opps[i].qualified = next.qualified
          /\ new.lead = IF next.status = "won" \/ p.qualified \in {"yes", "no"} THEN "yes" ELSE c.lead
      <3>1. PatchLeaves(c, i, p, new) BY <2>1, <2>2, <2>3, Patched, Zenon
      <3>. QED BY <3>1 DEF PatchLeaves
    <2>6. c.opps[i] \in Opp /\ c.opps[i].qualified # "no" BY <2>2, Columns_ DEF Sound
    <2>7. /\ next.status = IF p.status # "keep" THEN p.status ELSE IF p.qualified = "no" THEN "lost" ELSE c.opps[i].status
          /\ next.qualified = IF next.status = "won" THEN "yes"
                              ELSE IF p.qualified # "keep" THEN p.qualified ELSE c.opps[i].qualified
      BY <2>2, <2>3, <2>6, Kernel
    <2>. HIDE DEF next
    <2>8. "status" \in sticky.set /\ next.status # c.opps[i].status => next.qualified # c.opps[i].qualified
      BY <2>2, <2>3, <2>6, <2>7
    <2>9. "qualified" \in sticky.set /\ next.qualified # c.opps[i].qualified => next.status # c.opps[i].status
      BY <2>2, <2>3, <2>7
    <2>10. new.lead # c.lead => new.lead = "yes" /\ next.qualified # "unknown"
      BY <2>3, <2>5, <2>7
    <2>. QED BY <1>2, <2>2, <2>4, <2>5, <2>8, <2>9, <2>10 DEF new, i
  <1>. QED BY <1>1, <1>2

LEMMA ClosedActionDoes ==
  ASSUME NEW c \in Crm, Sound(c), NEW d \in Decision, NEW sticky \in Sticky_, Len(c.opps) <= MaxOpps
  PROVE  LET new == ClosedAction(c, d, sticky)
             i == LastClosedOpp(c)
         IN /\ new \in Crm /\ Sound(new) /\ DOMAIN c.opps \subseteq DOMAIN new.opps
            /\ Len(c.opps) <= Len(new.opps) /\ Len(new.opps) <= MaxOpps
            /\ OpenOf(new) \subseteq OpenOf(c) \/ \E x : OpenOf(new) \subseteq {x}
            /\ \A k \in DOMAIN c.opps : c.opps[k].status # "lost" \/ k # i => new.opps[k] = c.opps[k]
            /\ new.lead = c.lead
            /\ d.closed = "none" => new = c
            /\ i # 0 /\ i \in DOMAIN c.opps /\ "status" \in sticky.set => new.opps[i] = c.opps[i]
            /\ i # 0 /\ i \in DOMAIN c.opps /\ new.opps[i].qualified # c.opps[i].qualified =>
                 new.opps[i].status # c.opps[i].status
  <1>. DEFINE new == ClosedAction(c, d, sticky)
              i == LastClosedOpp(c)
              p == [status |-> "open", qualified |-> "keep"]
              again == d.closed = "reabrir" /\ i # 0 /\ Reopens(c, i, sticky)
              more == d.closed = "criar_nova" /\ Len(c.opps) < MaxOpps
  <1>0. Len(c.opps) \in Nat BY Columns_
  <1>1. CASE OpenOf(c) # {} \/ (~again /\ ~more)
    <2>1. new = c BY <1>1 DEF ClosedAction
    <2>. HIDE DEF new
    <2>. QED BY <1>0, <2>1 DEF new
  <1>2. CASE OpenOf(c) = {} /\ again
    <2>1. new = ApplyOppPatch(c, i, p, FALSE) BY <1>2 DEF ClosedAction
    <2>2. i \in DOMAIN c.opps /\ c.opps[i].status = "lost" /\ "status" \notin sticky.set
      BY <1>2, OpenIs DEF Reopens
    <2>3. p \in Patches /\ p.status = "open" /\ p.qualified = "keep" /\ ~Refused(c.opps[i], p)
      BY DEF Patches, Refused
    <2>. DEFINE next == Next_(c.opps[i], p)
    <2>. HIDE DEF new, p, i
    <2>4. Sound(new) /\ OpenOf(new) \subseteq OpenOf(c) \cup {i}
      BY <2>1, <2>2, <2>3, SafePatch
    <2>5. /\ new \in Crm /\ Len(new.opps) = Len(c.opps) /\ DOMAIN new.opps = DOMAIN c.opps
          /\ \A k \in DOMAIN c.opps : k # i => new.opps[k] = c.opps[k]
          /\ new.opps[i].status = next.status
          /\ new.lead = IF next.status = "won" \/ p.qualified \in {"yes", "no"} THEN "yes" ELSE c.lead
      <3>1. PatchLeaves(c, i, p, new) BY <2>1, <2>2, <2>3, Patched, Zenon
      <3>. QED BY <3>1 DEF PatchLeaves
    <2>6. c.opps[i] \in Opp BY <2>2, Columns_
    <2>7. next.status = "open" BY <2>3, <2>6, Kernel
    <2>8. OpenOf(new) \subseteq {i} BY <1>2, <2>4
    <2>9. new.lead = c.lead BY <2>3, <2>5, <2>7
    <2>10. d.closed # "none" BY <1>2
    <2>11. \E x : OpenOf(new) \subseteq {x} BY <2>8
    <2>12. \A k \in DOMAIN c.opps : c.opps[k].status # "lost" \/ k # i => new.opps[k] = c.opps[k]
      BY <2>2, <2>5
    <2>13. Len(new.opps) <= MaxOpps /\ Len(c.opps) <= Len(new.opps) /\ DOMAIN c.opps \subseteq DOMAIN new.opps
      BY <1>0, <2>5
    <2>14. new.opps[i].status # c.opps[i].status BY <2>2, <2>5, <2>7
    <2>. HIDE DEF next
    <2>. QED BY <2>2, <2>4, <2>5, <2>9, <2>10, <2>11, <2>12, <2>13, <2>14, Zenon DEF new, i
  <1>3. CASE OpenOf(c) = {} /\ ~again /\ more
    <2>1. new = InsertOpportunity(c, "unknown") BY <1>3 DEF ClosedAction
    <2>. DEFINE n == Len(c.opps) + 1
    <2>2. "unknown" \in Ternary /\ "unknown" \in {"unknown", "yes"} BY DEF Ternary
    <2>. HIDE DEF new
    <2>3. /\ new \in Crm /\ Len(new.opps) = n /\ DOMAIN new.opps = DOMAIN c.opps \cup {n}
          /\ \A k \in DOMAIN c.opps : new.opps[k] = c.opps[k]
          /\ new.lead = c.lead
      BY <2>1, <2>2, Inserted
    <2>4. Sound(new) /\ OpenOf(new) = OpenOf(c) \cup {n} BY <2>1, <2>2, SafeInsert
    <2>5. OpenOf(new) \subseteq {n} BY <1>3, <2>4
    <2>6. \E x : OpenOf(new) \subseteq {x} BY <2>5
    <2>7. Len(new.opps) <= MaxOpps /\ Len(c.opps) <= Len(new.opps) /\ DOMAIN c.opps \subseteq DOMAIN new.opps
      BY <1>0, <1>3, <2>3, CrmAssumption
    <2>8. d.closed # "none" BY <1>3
    <2>. HIDE DEF n, i
    <2>. QED BY <2>3, <2>4, <2>6, <2>7, <2>8, Zenon DEF new, i
  <1>. QED BY <1>1, <1>2, <1>3

\* What CascadesOnly asks of a step from crm to new.
InItsWake(new) ==
  /\ \A i \in DOMAIN crm.opps :
       /\ "status" \in crm.opps[i].set /\ new.opps[i].status # crm.opps[i].status =>
            \/ new.opps[i].qualified # crm.opps[i].qualified \/ new.lead # crm.lead
            \/ /\ crm.lead = "no" /\ new.lead = "no" /\ ~crm.ruled
               /\ crm.opps[i].status = "open" /\ new.opps[i].status = "lost"
       /\ "qualified" \in crm.opps[i].set /\ new.opps[i].qualified # crm.opps[i].qualified =>
            new.opps[i].status # crm.opps[i].status
  /\ crm.ruled /\ new.lead # crm.lead =>
       new.lead = "yes" /\ \E i \in OpenOf(crm) : new.opps[i].qualified # "unknown"

\* A judgment that is not stale.
LEMMA JudgmentWrites ==
  ASSUME TypeOK, Sound(crm),
         NEW s, s.open = OpenOpp(crm), s.closed = LastClosedOpp(crm), NEW new \in Applied(s)
  PROVE  /\ new \in Crm /\ Sound(new) /\ DOMAIN crm.opps \subseteq DOMAIN new.opps
         /\ Len(crm.opps) <= Len(new.opps) /\ Len(new.opps) <= MaxOpps
         /\ OpenOf(new) \subseteq OpenOf(crm) \/ \E x : OpenOf(new) \subseteq {x}
         /\ \A i \in DOMAIN crm.opps : crm.opps[i].status = "won" => new.opps[i].status = "won"
         /\ InItsWake(new)
  <1>. DEFINE sticky == Sticky(s)
  <1>1. PICK d \in Decision :
          /\ ParseJudgmentDecision(d, s)
          /\ new = ClosedAction(PatchOpen(ApplyTriage(crm, d, sticky), d, sticky), d, sticky)
    BY DEF Applied
  <1>. DEFINE c == ApplyTriage(crm, d, sticky)
              e == PatchOpen(c, d, sticky)
              i == OpenOpp(c)
              k == LastClosedOpp(e)
  <1>2. crm \in Crm /\ Len(crm.opps) <= MaxOpps BY DEF TypeOK, Crm
  <1>3. /\ sticky \in Sticky_ /\ sticky.lead = crm.ruled
        /\ s.open # 0 => sticky.set = crm.opps[s.open].set
        /\ s.open = 0 /\ s.closed # 0 => sticky.set = crm.opps[s.closed].set
    BY StickyIs
  <1>. HIDE DEF sticky
  <1>4. /\ c \in Crm /\ Sound(c) /\ Len(c.opps) = Len(crm.opps) /\ DOMAIN c.opps = DOMAIN crm.opps
        /\ OpenOf(c) \subseteq OpenOf(crm)
        /\ \A x \in DOMAIN crm.opps : crm.opps[x].status # "open" => c.opps[x] = crm.opps[x]
        /\ \A x \in DOMAIN crm.opps : c.opps[x].qualified = crm.opps[x].qualified
        /\ \A x \in DOMAIN crm.opps : crm.opps[x].status = "open" =>
             c.opps[x] = crm.opps[x] \/ c.opps[x].status = "lost"
        /\ sticky.lead => c = crm
        /\ c.opps = crm.opps \/ (c.lead = "no" /\ ~sticky.lead /\ OpenOf(c) = {})
    BY <1>2, <1>3, TriageDoes
  <1>. HIDE DEF c
  <1>5. /\ e \in Crm /\ Sound(e) /\ Len(e.opps) = Len(c.opps) /\ DOMAIN e.opps = DOMAIN c.opps
        /\ OpenOf(e) \subseteq OpenOf(c)
        /\ \A x \in DOMAIN c.opps : c.opps[x].status # "open" \/ x # i => e.opps[x] = c.opps[x]
        /\ e = c \/
             /\ i # 0
             /\ "status" \in sticky.set /\ e.opps[i].status # c.opps[i].status =>
                  e.opps[i].qualified # c.opps[i].qualified
             /\ "qualified" \in sticky.set /\ e.opps[i].qualified # c.opps[i].qualified =>
                  e.opps[i].status # c.opps[i].status
             /\ e.lead # c.lead => e.lead = "yes" /\ e.opps[i].qualified # "unknown"
    BY <1>3, <1>4, PatchOpenDoes
  <1>. HIDE DEF e
  <1>6. /\ new \in Crm /\ Sound(new) /\ DOMAIN e.opps \subseteq DOMAIN new.opps
        /\ Len(e.opps) <= Len(new.opps) /\ Len(new.opps) <= MaxOpps
        /\ OpenOf(new) \subseteq OpenOf(e) \/ \E x : OpenOf(new) \subseteq {x}
        /\ \A x \in DOMAIN e.opps : e.opps[x].status # "lost" \/ x # k => new.opps[x] = e.opps[x]
        /\ new.lead = e.lead
        /\ d.closed = "none" => new = e
        /\ k # 0 /\ k \in DOMAIN e.opps /\ "status" \in sticky.set => new.opps[k] = e.opps[k]
        /\ k # 0 /\ k \in DOMAIN e.opps /\ new.opps[k].qualified # e.opps[k].qualified =>
             new.opps[k].status # e.opps[k].status
    <2>1. new = ClosedAction(e, d, sticky) BY <1>1 DEF c, e, sticky
    <2>2. Len(e.opps) <= MaxOpps BY <1>2, <1>4, <1>5
    <2>. QED BY <1>3, <1>5, <2>1, <2>2, ClosedActionDoes
  <1>7. \A x \in DOMAIN crm.opps : crm.opps[x].status = "won" => new.opps[x].status = "won"
    BY <1>4, <1>5, <1>6
  <1>8. OpenOf(new) \subseteq OpenOf(crm) \/ \E x : OpenOf(new) \subseteq {x}
    <2>1. CASE OpenOf(new) \subseteq OpenOf(e) BY <1>4, <1>5, <2>1
    <2>. QED BY <1>6, <2>1, Zenon
  <1>9. InItsWake(new)
    <2>1. CASE s.open # 0
      <3>1. new = e BY <1>1, <1>6, <2>1 DEF ParseJudgmentDecision
      <3>2. CASE c.opps = crm.opps
        <4>1. i = s.open /\ i \in OpenOf(crm) /\ sticky.set = crm.opps[i].set
          <5>1. OpenOf(c) = OpenOf(crm) BY <3>2 DEF OpenOf, WithStatus
          <5>2. i = s.open BY <5>1 DEF OpenOpp
          <5>. QED BY <1>2, <1>3, <2>1, <5>2, OpenIs DEF OpenOf, WithStatus
        <4>2. ASSUME NEW x \in DOMAIN crm.opps
              PROVE  /\ "status" \in crm.opps[x].set /\ e.opps[x].status # crm.opps[x].status =>
                          e.opps[x].qualified # crm.opps[x].qualified
                     /\ "qualified" \in crm.opps[x].set /\ e.opps[x].qualified # crm.opps[x].qualified =>
                          e.opps[x].status # crm.opps[x].status
          <5>1. CASE x # i BY <1>5, <3>2, <5>1
          <5>2. CASE x = i BY <1>5, <3>2, <4>1, <5>2
          <5>. QED BY <5>1, <5>2
        <4>3. crm.ruled /\ e.lead # crm.lead => e.lead = "yes" /\ e.opps[i].qualified # "unknown"
          BY <1>3, <1>4, <1>5
        <4>. QED BY <3>1, <4>1, <4>2, <4>3 DEF InItsWake
      <3>3. CASE c.opps # crm.opps
        <4>1. c.lead = "no" /\ ~crm.ruled /\ OpenOf(c) = {} BY <1>3, <1>4, <3>3
        <4>2. e = c BY <1>4, <1>5, <4>1, OpenIs
        <4>3. new.opps = c.opps /\ new.lead = "no" BY <3>1, <4>1, <4>2
        <4>4. ASSUME NEW x \in DOMAIN crm.opps
              PROVE  /\ c.opps[x].qualified = crm.opps[x].qualified
                     /\ c.opps[x].status # crm.opps[x].status =>
                          crm.opps[x].status = "open" /\ c.opps[x].status = "lost"
          <5>1. c.opps[x].qualified = crm.opps[x].qualified BY <1>4
          <5>2. CASE crm.opps[x].status = "open"
            <6>1. c.opps[x] = crm.opps[x] \/ c.opps[x].status = "lost" BY <1>4, <5>2
            <6>. QED BY <5>1, <5>2, <6>1
          <5>3. CASE crm.opps[x].status # "open"
            <6>1. c.opps[x] = crm.opps[x] BY <1>4, <5>3
            <6>. QED BY <5>1, <6>1
          <5>. QED BY <5>2, <5>3
        <4>. QED BY <4>1, <4>3, <4>4 DEF InItsWake
      <3>. QED BY <3>2, <3>3
    <2>2. CASE s.open = 0
      <3>1. OpenOf(crm) = {} BY <1>2, <2>2, OpenIs
      <3>2. \A x \in DOMAIN crm.opps : c.opps[x] = crm.opps[x]
        BY <1>4, <3>1 DEF OpenOf, WithStatus
      <3>3. c.opps = crm.opps
        <4>1. c.opps \in Seq(Opp) /\ crm.opps \in Seq(Opp) BY <1>2, <1>4 DEF Crm
        <4>2. DOMAIN crm.opps = 1..Len(c.opps) BY <1>2, <1>4, Columns_
        <4>. QED BY <1>4, <3>2, <4>1, <4>2, SeqEqual
      <3>4. e = c
        <4>1. OpenOf(c) = {} BY <1>4, <3>1
        <4>. QED BY <1>4, <1>5, <4>1, OpenIs
      <3>5. k = s.closed BY <3>3, <3>4 DEF LastClosedOpp, WithStatus
      <3>6. k # 0 => k \in DOMAIN crm.opps /\ sticky.set = crm.opps[k].set
        BY <1>2, <1>3, <2>2, <3>5, OpenIs
      <3>7. crm.ruled => new.lead = crm.lead BY <1>3, <1>4, <1>6, <3>4
      <3>8. ASSUME NEW x \in DOMAIN crm.opps
            PROVE  /\ "status" \in crm.opps[x].set => new.opps[x].status = crm.opps[x].status
                   /\ new.opps[x].qualified # crm.opps[x].qualified => new.opps[x].status # crm.opps[x].status
        <4>0. x # 0 BY <1>2, Columns_
        <4>1. CASE x # k BY <1>6, <3>3, <3>4, <4>1
        <4>2. CASE x = k BY <1>6, <3>3, <3>4, <3>6, <4>0, <4>2
        <4>. QED BY <4>1, <4>2
      <3>. QED BY <3>7, <3>8 DEF InItsWake
    <2>. QED BY <2>1, <2>2
  <1>. QED BY <1>4, <1>5, <1>6, <1>7, <1>8, <1>9

-----------------------------------------------------------------------------
(* The invariant. *)

Inv == TypeOK /\ Sound(crm)

WonStays == \A i \in DOMAIN crm.opps : crm.opps[i].status = "won" => crm'.opps[i].status = "won"

LEMMA AgingKeeps ==
  ASSUME TypeOK, NEW new
  PROVE  Aging(new) \in [Judge -> Snapshot \cup {Idle, Picked}]
  <1>. SUFFICES ASSUME NEW j \in Judge
                PROVE  Aging(new)[j] \in Snapshot \cup {Idle, Picked}
    BY DEF Aging
  <1>1. CASE ~HasRead(j) BY <1>1 DEF Aging, HasRead
  <1>2. CASE HasRead(j)
    <2>1. job[j] \in Snapshot BY <1>2 DEF TypeOK, HasRead
    <2>2. Aging(new)[j] = job[j] \/ Aging(new)[j] = [job[j] EXCEPT !.touched = TRUE]
      BY <1>2 DEF Aging
    <2>. QED BY <1>2, <2>1, <2>2 DEF Snapshot
  <1>. QED BY <1>1, <1>2

LEMMA Committed ==
  ASSUME Inv, job' = Aging(crm'), crm' \in Crm, Sound(crm'),
         Len(crm.opps) <= Len(crm'.opps), Len(crm'.opps) <= MaxOpps,
         UNCHANGED <<idle, last, judged, faults>>,
         creating' \in BOOLEAN, closing' \subseteq closing, writes' \in 0..MaxWrites
  PROVE  Inv'
  <1>1. crm \in Crm BY DEF Inv, TypeOK, Crm
  <1>2. DOMAIN crm.opps \subseteq DOMAIN crm'.opps BY <1>1, Columns_
  <1>3. job' \in [Judge -> Snapshot \cup {Idle, Picked}] BY AgingKeeps DEF Inv
  <1>4. Snapshot' = Snapshot BY DEF Snapshot
  <1>5. TypeOK' BY <1>2, <1>3, <1>4 DEF Inv, TypeOK, Crm
  <1>. QED BY <1>5 DEF Inv

\* The one way a request may leave the conversation.
LEMMA PersonWrote ==
  ASSUME Inv, NEW new, Person, Commit(new), UNCHANGED <<idle, last, judged, creating, closing, faults>>,
         new \in Crm, Sound(new), Len(crm.opps) <= Len(new.opps), Len(new.opps) <= MaxOpps,
         OneOpen => Cardinality(OpenOf(new)) <= 1
  PROVE  Inv' /\ writes' # writes /\ judged' = judged /\ (OneOpen => OneOpen')
  <1>1. crm' = new /\ job' = Aging(crm') BY DEF Commit
  <1>2. writes' \in 0..MaxWrites /\ writes' # writes BY CrmAssumption DEF Inv, TypeOK, Person
  <1>3. creating' \in BOOLEAN /\ closing' \subseteq closing BY DEF Inv, TypeOK
  <1>4. Inv' BY <1>1, <1>2, <1>3, Committed
  <1>5. OneOpen => OneOpen' BY <1>1 DEF OneOpen
  <1>. QED BY <1>2, <1>4, <1>5

LEMMA PeopleWrite ==
  ASSUME Inv, \/ CreateOpportunity \/ PatchOpportunity \/ MoveOpportunity \/ DeleteOpportunity \/ SetLeadStatus
  PROVE  Inv' /\ writes' # writes /\ judged' = judged /\ (OneOpen => OneOpen')
  <1>0. crm \in Crm /\ Sound(crm) /\ Len(crm.opps) <= MaxOpps /\ Len(crm.opps) \in Nat /\ TRUE \in BOOLEAN
    BY Columns_ DEF Inv, TypeOK, Crm
  <1>1. CASE CreateOpportunity
    <2>1. PICK qualified \in {"unknown", "yes"} :
            LET new == InsertOpportunity(crm, qualified)
            IN Commit(IF qualified = "yes" THEN ApplyThreadLead(new, "yes", TRUE) ELSE new)
      BY <1>1 DEF CreateOpportunity
    <2>. DEFINE b == InsertOpportunity(crm, qualified)
                new == IF qualified = "yes" THEN ApplyThreadLead(b, "yes", TRUE) ELSE b
    <2>2. qualified \in Ternary /\ "yes" \in Ternary BY DEF Ternary
    <2>3. b \in Crm /\ Len(b.opps) = Len(crm.opps) + 1 /\ b.lead = crm.lead
      BY <1>0, <2>2, Inserted
    <2>4. Sound(b) /\ OpenOf(b) = OpenOf(crm) \cup {Len(crm.opps) + 1} BY <1>0, SafeInsert
    <2>. HIDE DEF b
    <2>5. /\ new \in Crm /\ new.opps = b.opps
      <3>1. CASE qualified = "yes"
        <4>1. RulingLeaves(b, "yes", ApplyThreadLead(b, "yes", TRUE)) BY <1>0, <2>2, <2>3, Ruling
        <4>. QED BY <2>3, <3>1, <4>1 DEF RulingLeaves
      <3>2. CASE qualified # "yes" BY <2>3, <3>2
      <3>. QED BY <3>1, <3>2
    <2>6. Commit(new) BY <2>1 DEF b
    <2>. HIDE DEF new
    <2>7. Person /\ OpenOf(crm) = {} /\ Len(crm.opps) < MaxOpps /\ UNCHANGED <<idle, last, judged, creating, closing, faults>>
      BY <1>1 DEF CreateOpportunity
    <2>8. Sound(new) /\ OpenOf(new) = {Len(crm.opps) + 1}
      BY <2>4, <2>5, <2>7 DEF Sound, OpenOf, WithStatus
    <2>9. Cardinality(OpenOf(new)) <= 1
      <3>1. Cardinality({Len(crm.opps) + 1}) = 1 BY FS_Singleton, Zenon
      <3>2. Cardinality(OpenOf(new)) = 1 BY <2>8, <3>1, Zenon
      <3>. QED BY <3>2
    <2>10. Len(new.opps) <= MaxOpps /\ Len(crm.opps) <= Len(new.opps)
      BY <1>0, <2>3, <2>5, <2>7, CrmAssumption
    <2>. QED BY <2>5, <2>6, <2>7, <2>8, <2>9, <2>10, PersonWrote
  <1>2. CASE PatchOpportunity
    <2>1. PICK i \in WithStatus(crm, {"open", "won", "lost"}), p \in Patches :
            /\ ~Refused(crm.opps[i], p)
            /\ Allowed(ApplyOppPatch(crm, i, p, TRUE)) /\ Commit(ApplyOppPatch(crm, i, p, TRUE))
      BY <1>2 DEF PatchOpportunity
    <2>. DEFINE new == ApplyOppPatch(crm, i, p, TRUE)
    <2>2. i \in DOMAIN crm.opps /\ crm.opps[i].status # "deleted" BY DEF WithStatus
    <2>3. PatchLeaves(crm, i, p, new) BY <1>0, <2>2, Patched, Zenon
    <2>4. Sound(new) BY <1>0, <2>1, <2>2, SafePatch
    <2>5. Commit(new) /\ Cardinality(OpenOf(new)) <= 1 BY <2>1 DEF Allowed
    <2>6. Person /\ UNCHANGED <<idle, last, judged, creating, closing, faults>> BY <1>2 DEF PatchOpportunity
    <2>. HIDE DEF new
    <2>7. /\ new \in Crm /\ Len(new.opps) = Len(crm.opps)
      BY <2>3 DEF PatchLeaves
    <2>8. Len(crm.opps) <= Len(new.opps) /\ Len(new.opps) <= MaxOpps BY <1>0, <2>7
    <2>. QED BY <2>4, <2>5, <2>6, <2>7, <2>8, PersonWrote
  <1>3. CASE MoveOpportunity
    <2>1. PICK i \in WithStatus(crm, {"open", "won", "lost"}), column \in DOMAIN Columns :
            LET to == Columns[column]
                new == ApplyThreadLead(ApplyOppPatch(crm, i, [status |-> to.status, qualified |-> to.qualified], TRUE), to.lead, TRUE)
            IN Allowed(new) /\ Commit(new)
      BY <1>3 DEF MoveOpportunity
    <2>. DEFINE to == Columns[column]
                p == [status |-> to.status, qualified |-> to.qualified]
                b == ApplyOppPatch(crm, i, p, TRUE)
                new == ApplyThreadLead(b, to.lead, TRUE)
    <2>2. i \in DOMAIN crm.opps /\ crm.opps[i].status # "deleted" BY DEF WithStatus
    <2>3. p \in Patches /\ p.qualified # "no" /\ to.lead \in Ternary /\ to.lead # "no"
      BY DEF Columns, Patches, Ternary
    <2>4. ~Refused(crm.opps[i], p) BY <2>3 DEF Refused
    <2>5. Allowed(new) /\ Commit(new) BY <2>1
    <2>. HIDE DEF p, to
    <2>6. PatchLeaves(crm, i, p, b) BY <1>0, <2>2, <2>3, Patched, Zenon
    <2>7. Sound(b) BY <1>0, <2>2, <2>3, <2>4, SafePatch
    <2>. HIDE DEF b
    <2>8. b \in Crm /\ Len(b.opps) = Len(crm.opps) BY <2>6 DEF PatchLeaves
    <2>9. RulingLeaves(b, to.lead, new) BY <1>0, <2>3, <2>8, Ruling, Zenon
    <2>. HIDE DEF new
    <2>10. new \in Crm /\ new.opps = b.opps /\ new.lead # "no"
      BY <2>3, <2>9 DEF RulingLeaves
    <2>11. Sound(new) /\ Cardinality(OpenOf(new)) <= 1 BY <2>5, <2>7, <2>10 DEF Sound, Allowed
    <2>12. Person /\ UNCHANGED <<idle, last, judged, creating, closing, faults>> BY <1>3 DEF MoveOpportunity
    <2>13. Len(crm.opps) <= Len(new.opps) /\ Len(new.opps) <= MaxOpps BY <1>0, <2>8, <2>10
    <2>. QED BY <2>5, <2>8, <2>10, <2>11, <2>12, <2>13, PersonWrote
  <1>4. CASE DeleteOpportunity
    <2>1. PICK i \in WithStatus(crm, {"open", "won", "lost"}) : Commit([crm EXCEPT !.opps[i].status = "deleted"])
      BY <1>4 DEF DeleteOpportunity
    <2>. DEFINE row == [crm.opps[i] EXCEPT !.status = "deleted"]
                new == [crm EXCEPT !.opps[i].status = "deleted"]
    <2>2. i \in DOMAIN crm.opps /\ i \in 1..Len(crm.opps) /\ crm.opps[i] \in Opp
      BY <1>0, Columns_ DEF WithStatus
    <2>3. row \in Opp /\ row.status = "deleted" BY <2>2 DEF Opp, Status
    <2>4. crm.opps \in Seq(Opp) BY <1>0 DEF Crm
    <2>5. new.opps = [crm.opps EXCEPT ![i] = row] /\ new.lead = crm.lead
      BY <1>0 DEF Crm
    <2>. HIDE DEF row
    <2>6. /\ new.opps \in Seq(Opp) /\ Len(new.opps) = Len(crm.opps)
          /\ \A k \in 1..Len(crm.opps) : new.opps[k] = IF k = i THEN row ELSE crm.opps[k]
      <3>. HIDE DEF new
      <3>. QED BY <2>2, <2>3, <2>4, <2>5, ExceptSeq
    <2>7. new = [crm EXCEPT !.opps = new.opps] BY <1>0, <2>5 DEF Crm
    <2>8. Commit(new) BY <2>1
    <2>. HIDE DEF new
    <2>9. new \in Crm BY <1>0, <2>5, <2>6, <2>7 DEF Crm
    <2>10. DOMAIN new.opps = 1..Len(crm.opps) /\ DOMAIN crm.opps = 1..Len(crm.opps)
      BY <1>0, <2>6, <2>9, Columns_
    <2>11. Sound(new) /\ OpenOf(new) \subseteq OpenOf(crm)
      BY <1>0, <2>3, <2>6, <2>10 DEF Sound, OpenOf, WithStatus
    <2>12. OneOpen => Cardinality(OpenOf(new)) <= 1 BY <1>0, <2>11, FewOpen DEF OneOpen
    <2>13. Person /\ UNCHANGED <<idle, last, judged, creating, closing, faults>> BY <1>4 DEF DeleteOpportunity
    <2>. QED BY <1>0, <2>5, <2>6, <2>8, <2>9, <2>11, <2>12, <2>13, PersonWrote
  <1>5. CASE SetLeadStatus
    <2>1. PICK value \in Ternary : Commit(ApplyLeadUpdate(crm, value, TRUE))
      BY <1>5 DEF SetLeadStatus
    <2>. DEFINE b == IF value = "no" THEN CascadeNotLead(crm) ELSE crm
                new == ApplyThreadLead(b, value, TRUE)
    <2>2. new = ApplyLeadUpdate(crm, value, TRUE) BY DEF ApplyLeadUpdate
    <2>3. b \in Crm /\ Len(b.opps) = Len(crm.opps) /\ b.lead = crm.lead
      BY <1>0, Cascade
    <2>4. Sound(b) /\ OpenOf(b) \subseteq OpenOf(crm) BY <1>0, SafeCascade
    <2>. HIDE DEF b
    <2>5. RulingLeaves(b, value, new) BY <1>0, <2>3, Ruling, Zenon
    <2>. HIDE DEF new
    <2>6. /\ new \in Crm /\ new.opps = b.opps
      BY <2>3, <2>5 DEF RulingLeaves
    <2>7. Sound(new) /\ OpenOf(new) \subseteq OpenOf(crm) BY <2>4, <2>6 DEF Sound, OpenOf, WithStatus
    <2>8. OneOpen => Cardinality(OpenOf(new)) <= 1 BY <1>0, <2>7, FewOpen DEF OneOpen
    <2>9. Person /\ UNCHANGED <<idle, last, judged, creating, closing, faults>> BY <1>5 DEF SetLeadStatus
    <2>10. Len(crm.opps) <= Len(new.opps) /\ Len(new.opps) <= MaxOpps BY <1>0, <2>3, <2>6
    <2>. QED BY <2>1, <2>2, <2>6, <2>7, <2>8, <2>9, <2>10, PersonWrote
  <1>. QED BY <1>1, <1>2, <1>3, <1>4, <1>5

LEMMA SweepsWrite ==
  ASSUME Inv, CreateFromSweep \/ AutoLoss
  PROVE  Inv' /\ judged' = judged /\ WonStays /\ (OneOpen => OneOpen')
  <1>0. crm \in Crm /\ Sound(crm) /\ Len(crm.opps) <= MaxOpps /\ Len(crm.opps) \in Nat
    BY Columns_ DEF Inv, TypeOK, Crm
  <1>00. job \in [Judge -> Snapshot \cup {Idle, Picked}] /\ writes \in 0..MaxWrites /\ creating \in BOOLEAN
    BY DEF Inv, TypeOK
  <1>1. CASE CreateFromSweep
    <2>1. creating' = FALSE /\ UNCHANGED <<idle, last, judged, closing, writes, faults>>
      BY <1>1 DEF CreateFromSweep
    <2>2. CASE Opens /\ Len(crm.opps) < MaxOpps
      <3>. DEFINE new == InsertOpportunity(crm, "unknown")
                  n == Len(crm.opps) + 1
      <3>1. Commit(new) BY <1>1, <2>2 DEF CreateFromSweep
      <3>2. "unknown" \in Ternary /\ "unknown" \in {"unknown", "yes"} BY DEF Ternary
      <3>3. /\ new \in Crm /\ Len(new.opps) = n /\ new.lead = crm.lead
            /\ \A i \in DOMAIN crm.opps : new.opps[i] = crm.opps[i]
        BY <1>0, <3>2, Inserted
      <3>4. Sound(new) /\ OpenOf(new) = OpenOf(crm) \cup {n} BY <1>0, <3>2, SafeInsert
      <3>5. OpenOf(crm) = {} BY <2>2 DEF Opens, Rows, OpenOf, WithStatus, Status
      <3>. HIDE DEF new
      <3>6. crm' = new /\ job' = Aging(crm') BY <3>1 DEF Commit
      <3>7. Inv'
        <4>1. Len(crm.opps) <= Len(crm'.opps) /\ Len(crm'.opps) <= MaxOpps
          BY <1>0, <2>2, <3>3, <3>6, CrmAssumption
        <4>2. creating' \in BOOLEAN /\ closing' \subseteq closing /\ writes' \in 0..MaxWrites
          BY <1>00, <2>1
        <4>. QED BY <2>1, <3>3, <3>4, <3>6, <4>1, <4>2, Committed
      <3>8. WonStays BY <3>3, <3>6 DEF WonStays
      <3>9. \E x : OpenOf(new) \subseteq {x} BY <3>4, <3>5
      <3>10. OneOpen => OneOpen' BY <1>0, <3>6, <3>9, FewOpen DEF OneOpen
      <3>. QED BY <2>1, <3>7, <3>8, <3>10
    <2>3. CASE ~(Opens /\ Len(crm.opps) < MaxOpps)
      <3>1. UNCHANGED <<crm, job>> BY <1>1, <2>3 DEF CreateFromSweep
      <3>2. Inv' BY <2>1, <3>1 DEF Inv, TypeOK, Snapshot
      <3>. QED BY <2>1, <3>1, <3>2 DEF WonStays, OneOpen
    <2>. QED BY <2>2, <2>3
  <1>2. CASE AutoLoss
    <2>. DEFINE i == Min(closing)
                p == [status |-> "lost", qualified |-> "keep"]
    <2>1. closing' \subseteq closing /\ UNCHANGED <<idle, last, judged, creating, writes, faults>>
      BY <1>2 DEF AutoLoss
    <2>2. CASE Guard(i)
      <3>. DEFINE new == ApplyOppPatch(crm, i, p, FALSE)
      <3>1. Commit(new) BY <1>2, <2>2 DEF AutoLoss
      <3>2. i \in DOMAIN crm.opps /\ crm.opps[i].status = "open" BY <2>2 DEF Guard, Inv, TypeOK
      <3>3. p \in Patches /\ p.status # "open" /\ p.qualified = "keep" /\ p.status = "lost" /\ ~Refused(crm.opps[i], p)
        BY DEF Patches, Refused
      <3>. HIDE DEF p, i
      <3>4. PatchLeaves(crm, i, p, new) BY <1>0, <3>2, <3>3, Patched, Zenon
      <3>5. Sound(new) /\ OpenOf(new) \subseteq OpenOf(crm) BY <1>0, <3>2, <3>3, SafePatch
      <3>. HIDE DEF new
      <3>6. Next_(crm.opps[i], p).status = "lost"
        <4>1. crm.opps[i] \in Opp BY <1>0, <3>2, Columns_
        <4>. QED BY <3>3, <4>1, Kernel
      <3>7. /\ new \in Crm /\ Len(new.opps) = Len(crm.opps) /\ new.lead = crm.lead
            /\ \A k \in DOMAIN crm.opps : k # i => new.opps[k] = crm.opps[k]
        BY <3>3, <3>4, <3>6 DEF PatchLeaves
      <3>8. crm' = new /\ job' = Aging(crm') BY <3>1 DEF Commit
      <3>9. Inv'
        <4>1. Len(crm.opps) <= Len(crm'.opps) /\ Len(crm'.opps) <= MaxOpps BY <1>0, <3>7, <3>8
        <4>2. creating' \in BOOLEAN /\ writes' \in 0..MaxWrites BY <1>00, <2>1
        <4>. QED BY <2>1, <3>5, <3>7, <3>8, <4>1, <4>2, Committed
      <3>10. WonStays BY <3>2, <3>7, <3>8 DEF WonStays
      <3>11. OneOpen => OneOpen' BY <1>0, <3>5, <3>8, FewOpen DEF OneOpen
      <3>. QED BY <2>1, <3>9, <3>10, <3>11
    <2>3. CASE ~Guard(i)
      <3>1. UNCHANGED <<crm, job>> BY <1>2, <2>3 DEF AutoLoss
      <3>2. Inv' BY <2>1, <3>1 DEF Inv, TypeOK, Snapshot
      <3>. QED BY <2>1, <3>1, <3>2 DEF WonStays, OneOpen
    <2>. QED BY <2>2, <2>3
  <1>. QED BY <1>1, <1>2

LEMMA JudgmentActs ==
  ASSUME Inv, NEW j \in Judge, ApplyJudgment(j)
  PROVE  Inv' /\ WonStays /\ (OneOpen => OneOpen') /\ (judged' # judged => InItsWake(crm'))
  <1>0. crm \in Crm /\ Sound(crm) /\ Len(crm.opps) <= MaxOpps /\ Len(crm.opps) \in Nat
    BY Columns_ DEF Inv, TypeOK, Crm
  <1>1. HasRead(j) /\ UNCHANGED <<idle, last, creating, closing, writes, faults>>
    BY DEF ApplyJudgment
  <1>2. job[j] \in Snapshot BY <1>1 DEF Inv, TypeOK, HasRead
  <1>3. CASE UNCHANGED <<crm, judged>> /\ job' = [job EXCEPT ![j] = Idle]
    <2>1. Inv' BY <1>1, <1>3 DEF Inv, TypeOK, Snapshot
    <2>. QED BY <1>3, <2>1 DEF WonStays, OneOpen
  <1>4. CASE /\ ~Stale(job[j]) /\ judged < last /\ judged' = last
             /\ crm' \in Applied(job[j]) /\ job' = [Aging(crm') EXCEPT ![j] = Idle]
    <2>. DEFINE s == job[j]
    <2>1. s.open = OpenOpp(crm) /\ s.closed = LastClosedOpp(crm)
      BY <1>4 DEF Stale
    <2>2. crm' \in Applied(s) BY <1>4
    <2>. HIDE DEF s
    <2>3. /\ crm' \in Crm /\ Sound(crm') /\ DOMAIN crm.opps \subseteq DOMAIN crm'.opps
          /\ Len(crm.opps) <= Len(crm'.opps) /\ Len(crm'.opps) <= MaxOpps
          /\ OpenOf(crm') \subseteq OpenOf(crm) \/ \E x : OpenOf(crm') \subseteq {x}
          /\ \A i \in DOMAIN crm.opps : crm.opps[i].status = "won" => crm'.opps[i].status = "won"
          /\ InItsWake(crm')
      BY <1>0, <2>1, <2>2, JudgmentWrites DEF Inv
    <2>4. job' \in [Judge -> Snapshot \cup {Idle, Picked}]
      <3>. DEFINE aged == Aging(crm')
      <3>1. aged \in [Judge -> Snapshot \cup {Idle, Picked}] BY AgingKeeps DEF Inv
      <3>2. job' = [aged EXCEPT ![j] = Idle] BY <1>4
      <3>. HIDE DEF aged
      <3>. QED BY <3>1, <3>2
    <2>5. TypeOK' BY <1>1, <1>4, <2>3, <2>4 DEF Inv, TypeOK, Crm, Snapshot
    <2>6. OneOpen => OneOpen' BY <1>0, <2>3, FewOpen DEF OneOpen
    <2>. QED BY <2>3, <2>5, <2>6 DEF Inv, WonStays
  <1>. QED BY <1>3, <1>4 DEF ApplyJudgment

\* Everything else reads the conversation, or is read by it.
LEMMA OthersRead ==
  ASSUME Inv, \/ FindUnopened \/ FindIdle \/ MessageArrives \/ DaysPass
              \/ \E j \in Judge : PickPending(j) \/ BuildJudgmentContext(j) \/ RecordUnapplied(j) \/ JudgmentLost(j)
  PROVE  Inv' /\ crm' = crm
  <1>0. /\ crm \in Crm /\ last \in 1..MaxMessages /\ judged \in 0..last /\ MaxMessages \in Nat
        /\ idle \subseteq DOMAIN crm.opps /\ job \in [Judge -> Snapshot \cup {Idle, Picked}]
    BY CrmAssumption DEF Inv, TypeOK, Crm
  <1>1. CASE FindUnopened
    BY <1>1 DEF FindUnopened, Inv, TypeOK, Snapshot
  <1>2. CASE FindIdle
    <2>1. closing' \subseteq DOMAIN crm.opps BY <1>2 DEF FindIdle, OpenOf, WithStatus
    <2>. QED BY <1>2, <2>1 DEF FindIdle, Inv, TypeOK, Snapshot
  <1>3. CASE MessageArrives
    <2>1. last' = last + 1 /\ last < MaxMessages /\ idle' = {} /\ UNCHANGED <<crm, judged, job, creating, closing, writes, faults>>
      BY <1>3 DEF MessageArrives
    <2>2. last' \in 1..MaxMessages /\ judged' \in 0..last' /\ idle' \subseteq DOMAIN crm'.opps BY <1>0, <2>1
    <2>3. Snapshot \subseteq Snapshot' BY <1>0, <2>1 DEF Snapshot
    <2>4. job' \in [Judge -> Snapshot' \cup {Idle, Picked}] BY <1>0, <2>1, <2>3
    <2>5. TypeOK' BY <2>1, <2>2, <2>4 DEF Inv, TypeOK
    <2>. QED BY <2>1, <2>5 DEF Inv
  <1>4. CASE DaysPass
    BY <1>4 DEF DaysPass, Inv, TypeOK, Snapshot
  <1>5. ASSUME NEW j \in Judge, BuildJudgmentContext(j) PROVE Inv' /\ crm' = crm
    <2>. DEFINE s == [last |-> last, open |-> OpenOpp(crm), closed |-> LastClosedOpp(crm), touched |-> FALSE]
    <2>1. /\ job' = [job EXCEPT ![j] = s]
          /\ UNCHANGED <<crm, idle, last, judged, creating, closing, writes, faults>>
      BY <1>5 DEF BuildJudgmentContext
    <2>2. s \in Snapshot
      <3>1. OpenOpp(crm) \in 0..MaxOpps /\ LastClosedOpp(crm) \in 0..MaxOpps
        <4>1. Len(crm.opps) <= MaxOpps /\ Len(crm.opps) \in Nat BY <1>0, Columns_ DEF Inv, TypeOK
        <4>. QED BY <1>0, <4>1, OpenIs, CrmAssumption
      <3>. QED BY <1>0, <3>1 DEF Snapshot
    <2>. HIDE DEF s
    <2>3. Inv' BY <1>0, <2>1, <2>2 DEF Inv, TypeOK, Snapshot
    <2>. QED BY <2>1, <2>3
  <1>6. ASSUME NEW j \in Judge, RecordUnapplied(j) \/ JudgmentLost(j) PROVE Inv' /\ crm' = crm
    <2>1. /\ job' = [job EXCEPT ![j] = Idle] /\ judged' \in {judged, last}
          /\ faults < MaxFaults /\ faults' = faults + 1
          /\ UNCHANGED <<crm, idle, last, creating, closing, writes>>
      BY <1>6 DEF RecordUnapplied, JudgmentLost
    <2>2. judged' \in 0..last /\ judged <= judged' /\ faults' \in 0..MaxFaults
      BY <1>0, <2>1, CrmAssumption DEF Inv, TypeOK
    <2>3. job' \in [Judge -> Snapshot \cup {Idle, Picked}] BY <1>0, <2>1
    <2>4. TypeOK' BY <2>1, <2>2, <2>3 DEF Inv, TypeOK, Snapshot
    <2>. QED BY <2>1, <2>4 DEF Inv
  <1>7. ASSUME NEW j \in Judge, PickPending(j) PROVE Inv' /\ crm' = crm
    <2>1. job' = [job EXCEPT ![j] = Picked] /\ UNCHANGED <<crm, idle, last, judged, creating, closing, writes, faults>>
      BY <1>7 DEF PickPending
    <2>2. job' \in [Judge -> Snapshot \cup {Idle, Picked}] BY <1>0, <2>1
    <2>. QED BY <2>1, <2>2 DEF Inv, TypeOK, Snapshot
  <1>. QED BY <1>1, <1>2, <1>3, <1>4, <1>5, <1>6, <1>7

LEMMA InitInv == Init => Inv /\ OneOpen
  <1>. SUFFICES ASSUME Init PROVE Inv /\ OneOpen
    OBVIOUS
  <1>1. crm.opps = <<>> /\ crm.lead = "unknown" /\ crm.ruled = FALSE /\ crm = [opps |-> <<>>, lead |-> "unknown", ruled |-> FALSE]
    BY DEF Init
  <1>2. crm.opps \in Seq(Opp) /\ Len(crm.opps) = 0 BY <1>1, EmptySeq
  <1>3. crm \in Crm BY <1>1, <1>2 DEF Crm, Ternary
  <1>4. DOMAIN crm.opps = {} BY <1>2, <1>3, Columns_
  <1>5. TypeOK
    <2>1. job \in [Judge -> Snapshot \cup {Idle, Picked}] BY DEF Init
    <2>2. last \in 1..MaxMessages /\ judged \in 0..last /\ writes \in 0..MaxWrites /\ faults \in 0..MaxFaults
      BY CrmAssumption DEF Init
    <2>3. idle \subseteq DOMAIN crm.opps /\ closing \subseteq DOMAIN crm.opps /\ creating \in BOOLEAN BY DEF Init
    <2>4. Len(crm.opps) <= MaxOpps BY <1>2, CrmAssumption
    <2>. QED BY <1>3, <2>1, <2>2, <2>3, <2>4 DEF TypeOK, Crm
  <1>6. Sound(crm) BY <1>4 DEF Sound
  <1>7. OpenOf(crm) = {} BY <1>4 DEF OpenOf, WithStatus
  <1>. QED BY <1>5, <1>6, <1>7, FS_EmptySet DEF Inv, OneOpen

LEMMA StepInv ==
  ASSUME Inv, [Next]_vars
  PROVE  /\ Inv' /\ (OneOpen => OneOpen')
         /\ writes' = writes => WonStays
         /\ judged' # judged => InItsWake(crm')
  <1>1. CASE \/ CreateOpportunity \/ PatchOpportunity \/ MoveOpportunity \/ DeleteOpportunity \/ SetLeadStatus
    BY <1>1, PeopleWrite
  <1>2. CASE CreateFromSweep \/ AutoLoss BY <1>2, SweepsWrite
  <1>3. CASE \E j \in Judge : ApplyJudgment(j) BY <1>3, JudgmentActs
  <1>4. CASE \/ FindUnopened \/ FindIdle \/ MessageArrives \/ DaysPass
             \/ \E j \in Judge : PickPending(j) \/ BuildJudgmentContext(j) \/ RecordUnapplied(j) \/ JudgmentLost(j)
    <2>1. Inv' /\ crm' = crm BY <1>4, OthersRead
    <2>. QED BY <2>1 DEF WonStays, OneOpen, InItsWake
  <1>5. CASE UNCHANGED vars
    BY <1>5 DEF vars, Inv, TypeOK, Snapshot, WonStays, OneOpen, InItsWake
  <1>. QED BY <1>1, <1>2, <1>3, <1>4, <1>5 DEF Next

-----------------------------------------------------------------------------
(* The results. *)

\* The invariant the others rest on.
THEOREM Invariance == Spec => []Inv
  <1>1. Init => Inv BY InitInv
  <1>2. Inv /\ [Next]_vars => Inv' BY StepInv
  <1>. QED BY <1>1, <1>2, PTL DEF Spec

\* Every value the conversation, the sweeps and the judges hold is of its type.
THEOREM TypeCorrect == Spec => []TypeOK
  <1>1. Inv => TypeOK BY DEF Inv
  <1>. QED BY <1>1, Invariance, PTL

\* A conversation has one open opportunity at most, whatever requests, sweeps and
\* judgments run side by side.
THEOREM OneIsOpen == Spec => []OneOpen
  <1>1. Init => OneOpen BY InitInv
  <1>2. Inv /\ OneOpen /\ [Next]_vars => OneOpen' BY StepInv
  <1>. QED BY <1>1, <1>2, Invariance, PTL DEF Spec

\* Only a request undoes a sale.
THEOREM SalesStand == Spec => SaleStands
  <1>1. Inv /\ [Next]_vars =>
          [\A i \in DOMAIN crm.opps : crm.opps[i].status = "won" /\ crm'.opps[i].status # "won" => HumanActs]_vars
    BY StepInv DEF WonStays, HumanActs
  <1>. QED BY <1>1, Invariance, PTL DEF Spec, SaleStands

\* What a person has set, a judgment changes only in the wake of something no
\* person has, or by ruling out once more what only a judgment has ruled out.
THEOREM JudgmentsCascade == Spec => CascadesOnly
  <1>1. Inv /\ [Next]_vars =>
          [AiActs =>
             /\ \A i \in DOMAIN crm.opps :
                  LET old == crm.opps[i]
                      new == crm'.opps[i]
                  IN /\ "status" \in old.set /\ new.status # old.status =>
                          \/ new.qualified # old.qualified \/ crm'.lead # crm.lead
                          \/ RuledOutAgain /\ old.status = "open" /\ new.status = "lost"
                     /\ "qualified" \in old.set /\ new.qualified # old.qualified => new.status # old.status
             /\ crm.ruled /\ crm'.lead # crm.lead =>
                  crm'.lead = "yes" /\ \E i \in OpenOf(crm) : crm'.opps[i].qualified # "unknown"]_vars
    BY StepInv DEF InItsWake, AiActs, RuledOutAgain
  <1>. QED BY <1>1, Invariance, PTL DEF Spec, CascadesOnly
=============================================================================
