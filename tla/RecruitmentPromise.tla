------------------------- MODULE RecruitmentPromise -------------------------
(* What RecruitmentService promises: a decision is one step, which writes    *)
(* the application, the applicant's notice and, when it fills the            *)
(* recruitment, both places its status is kept in.  Nothing else notifies    *)
(* anybody or touches the recruitment row, so neither half of a decision can *)
(* be a step of its own, nor its FILLED the author's doing.                  *)
EXTENDS RecruitmentBoard, Integers

CONSTANTS Capacities, \* the capacities a post may be created with
          NoCapacity  \* SQL NULL in recruitment_posts.capacity

ASSUME CapacityAssumption ==
  /\ Capacities \subseteq (Nat \ {0}) \cup {NoCapacity}
  /\ NoCapacity \notin Nat

VARIABLES recruitment, \* the recruitment_posts row
          told         \* each applicant's last notice, and the parity of their number

rows == <<post, legacy, app, recruitment, told>>

\* create writes the same status to both places, in one transaction.
CreatePost ==
  /\ Init
  /\ \E capacity \in Capacities :
       recruitment = [status |-> legacy, capacity |-> capacity]
  /\ told = [u \in Applicants |-> [decision |-> "ABSENT", odd |-> FALSE]]

\* One more notice: the parity tells it from a step that sends none.
Notify(u, word) ==
  told' = [told EXCEPT ![u] = [decision |-> word, odd |-> ~@.odd]]

DecideWhole(u, decision, fills) ==
  /\ Decided(u, decision, fills)
  /\ recruitment' = IF fills THEN [recruitment EXCEPT !.status = "FILLED"] ELSE recruitment
  /\ Notify(u, decision)

Otherwise == (Apply \/ Withdraw \/ Manage) /\ UNCHANGED <<recruitment, told>>

PromiseNext ==
  \/ \E u \in Applicants, decision \in Decisions, fills \in BOOLEAN :
       DecideWhole(u, decision, fills)
  \/ Otherwise

PromiseSpec == CreatePost /\ [][PromiseNext]_rows
=============================================================================
