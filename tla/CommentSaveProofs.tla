------------------------- MODULE CommentSaveProofs -------------------------
(***************************************************************************)
(* Proofs about CommentSave, for any workers, forms, limits and bounds.    *)
(* The inductive invariant says that a work directory under construction   *)
(* has one owner, which knows what is in it, and relates each request to   *)
(* what has been published and answered.                                   *)
(***************************************************************************)
EXTENDS CommentSave, TLAPS

Saving(w) == pc[w] \notin {"idle", "done"}
Named(w) == pc[w] \in {"mkdir", "text", "meta", "write meta", "rename"}
Owns(w) == pc[w] \in {"text", "meta", "write meta", "rename"}

Places == {"idle", "get_post", "gettime", "name", "mkdir", "text", "meta",
           "write meta", "rename", "done"}
Dir == [name : Nat \X Nat, work : BOOLEAN, text : Int, meta : Int]

\* no two workers use the same name: the nonce is only reset when all are gone
NameInv ==
  \A w \in Workers : Named(w) =>
    /\ name[w] \in Nat \X Nat /\ name[w][2] \in 1..nonce
    /\ \A v \in Workers : Named(v) /\ name[v] = name[w] => v = w

\* a request has one worker until it has been answered
RequestInv ==
  /\ \A w \in Workers : pc[w] # "idle" =>
       /\ req[w] \in 1..requests
       /\ \A v \in Workers : pc[v] # "idle" /\ req[v] = req[w] => v = w
       /\ \A a \in answered : a.request # req[w]
  /\ \A a \in answered : a.request \in 1..requests

\* the checks, of request r
Passed(r) ==
  LET f == forms[r]
  IN /\ f.request = "none" /\ f.empty = "blank" /\ f.captcha = Captcha
     /\ arrival[r] - f.date \in MinThink..MaxThink
     /\ {f.email, f.author, f.comment} = {"filled"}

PassedInv == \A w \in Workers : Saving(w) => err[w] = "none" /\ Passed(req[w])

\* the work directory of a worker that has made one
WorkInv ==
  \A w \in Workers : Owns(w) =>
    \E d \in dirs : /\ WorkDirs(name[w]) = {d}
                    /\ pc[w] # "text" => d.text = req[w]
                    /\ pc[w] = "rename" => d.meta = req[w]

IsPublished(r) == \E d \in Published : d.text = r

PublishedInv ==
  /\ \A d \in Published : d.text \in 1..requests /\ d.meta = d.text /\ Passed(d.text)
  /\ \A d, e \in Published : d.text = e.text => d = e
  /\ \A w \in Workers : pc[w] # "idle" =>
       (IsPublished(req[w]) <=> pc[w] = "done" /\ err[w] = "none")
  /\ \A a \in answered : IsPublished(a.request) <=> a.err = "none"

IInv == TypeOK /\ NameInv /\ RequestInv /\ PassedInv /\ WorkInv /\ PublishedInv

-----------------------------------------------------------------------------
(* The checks *)

\* a set of numbers up to seven has a smallest
LEMMA SmallSetMinimum ==
  ASSUME NEW S \in SUBSET (1..7), S # {}
  PROVE  \E i \in S : \A j \in S : i <= j
<1>1. CASE 1 \in S
  BY <1>1
<1>2. CASE 1 \notin S /\ 2 \in S
  BY <1>2
<1>3. CASE S \cap 1..2 = {} /\ 3 \in S
  BY <1>3
<1>4. CASE S \cap 1..3 = {} /\ 4 \in S
  BY <1>4
<1>5. CASE S \cap 1..4 = {} /\ 5 \in S
  BY <1>5
<1>6. CASE S \cap 1..5 = {} /\ 6 \in S
  BY <1>6
<1>7. CASE S \cap 1..6 = {} /\ 7 \in S
  BY <1>7
<1>8. \E i \in 1..7 : i \in S
  OBVIOUS
<1>9. 1 \in S \/ 2 \in S \/ 3 \in S \/ 4 \in S \/ 5 \in S \/ 6 \in S \/ 7 \in S
  BY <1>8
<1> QED BY <1>1, <1>2, <1>3, <1>4, <1>5, <1>6, <1>7, <1>9

\* no error means that nothing is wrong
LEMMA NoFirstError ==
  ASSUME NEW checks, DOMAIN checks \subseteq 1..7,
         \A i \in DOMAIN checks : checks[i][1] => checks[i][2] # "none",
         FirstError(checks) = "none"
  PROVE  \A i \in DOMAIN checks : ~checks[i][1]
<1> DEFINE wrong == {i \in DOMAIN checks : checks[i][1]}
<1>1. SUFFICES ASSUME wrong # {} PROVE FALSE
  OBVIOUS
<1>2. \E i \in wrong : \A j \in wrong : i <= j
  BY <1>1, SmallSetMinimum
<1>3. PICK i \in wrong : i = CHOOSE k \in wrong : \A j \in wrong : k <= j
  BY <1>2
<1>4. FirstError(checks) = checks[i][2]
  BY <1>1, <1>3 DEF FirstError
<1> QED BY <1>4

\* an error is one of those that the checks have
LEMMA FirstErrorIn ==
  ASSUME NEW checks, DOMAIN checks \subseteq 1..7,
         \A i \in DOMAIN checks : checks[i][2] \in Results
  PROVE  FirstError(checks) \in Results
<1> DEFINE wrong == {i \in DOMAIN checks : checks[i][1]}
<1>1. CASE wrong = {}
  BY <1>1 DEF FirstError, Results
<1>2. CASE wrong # {}
  <2>1. \E i \in wrong : \A j \in wrong : i <= j
    BY <1>2, SmallSetMinimum
  <2>2. PICK i \in wrong : i = CHOOSE k \in wrong : \A j \in wrong : k <= j
    BY <2>1
  <2> QED BY <1>2, <2>2 DEF FirstError
<1> QED BY <1>1, <1>2

\* now - date wraps to more than the largest think time for a date to come
LEMMA ThinkTimeRange ==
  ASSUME NEW t \in StartClock..MaxClock, NEW d \in 0..(Word - 1),
         ThinkTime(t, d) \in MinThink..MaxThink
  PROVE  t - d \in MinThink..MaxThink
<1>1. MinThink \in Nat /\ MaxThink \in Nat /\ Word \in Int
  BY CommentAssumption
<1> QED BY <1>1, CommentAssumption DEF ThinkTime

LEMMA SpamCheckPassed ==
  ASSUME NEW f \in Form, NEW t \in StartClock..MaxClock, SpamCheck(f, t) = "none"
  PROVE  f.empty = "blank" /\ f.captcha = Captcha /\ t - f.date \in MinThink..MaxThink
<1> DEFINE checks == << <<f.empty # "blank", "generic">>,
                        <<f.date = Absent, "generic">>,
                        <<ThinkTime(t, f.date) \notin MinThink..MaxThink, "generic">>,
                        <<f.captcha = Absent, "generic">>,
                        <<f.captcha # Captcha, "captcha">> >>
<1>1. FirstError(checks) = "none"
  BY DEF SpamCheck
<1>2. DOMAIN checks = 1..5
  OBVIOUS
<1>3. /\ checks[1][2] # "none" /\ checks[2][2] # "none" /\ checks[3][2] # "none"
      /\ checks[4][2] # "none" /\ checks[5][2] # "none"
  OBVIOUS
<1> HIDE DEF checks
<1>4. \A i \in DOMAIN checks : checks[i][2] # "none"
  BY <1>2, <1>3
<1>5. \A i \in DOMAIN checks : ~checks[i][1]
  BY <1>1, <1>2, <1>4, NoFirstError
<1>6. ~checks[1][1] /\ ~checks[2][1] /\ ~checks[3][1] /\ ~checks[5][1]
  BY <1>2, <1>5
<1>7. f.empty = "blank" /\ f.date # Absent /\ f.captcha = Captcha
      /\ ThinkTime(t, f.date) \in MinThink..MaxThink
  BY <1>6 DEF checks
<1>8. f.date \in 0..(Word - 1)
  BY <1>7 DEF Form
<1> QED BY <1>7, <1>8, ThinkTimeRange

LEMMA GetStringsPassed ==
  ASSUME NEW f \in Form, GetStrings(f) = "none"
  PROVE  {f.email, f.author, f.comment} = {"filled"}
<1> DEFINE checks == << <<f.email = "absent", "generic">>,   <<f.email = "blank", "no email">>,
                        <<f.author = "absent", "generic">>,  <<f.author = "blank", "no name">>,
                        <<f.comment = "absent", "generic">>, <<f.comment = "blank", "no content">>,
                        <<f.url = "absent", "generic">> >>
<1>1. FirstError(checks) = "none"
  BY DEF GetStrings
<1>2. DOMAIN checks = 1..7
  OBVIOUS
<1>3. /\ checks[1][2] # "none" /\ checks[2][2] # "none" /\ checks[3][2] # "none"
      /\ checks[4][2] # "none" /\ checks[5][2] # "none" /\ checks[6][2] # "none"
      /\ checks[7][2] # "none"
  OBVIOUS
<1> HIDE DEF checks
<1>4. \A i \in DOMAIN checks : checks[i][2] # "none"
  BY <1>2, <1>3
<1>5. \A i \in DOMAIN checks : ~checks[i][1]
  BY <1>1, <1>2, <1>4, NoFirstError
<1>6. /\ ~checks[1][1] /\ ~checks[2][1] /\ ~checks[3][1]
      /\ ~checks[4][1] /\ ~checks[5][1] /\ ~checks[6][1]
  BY <1>2, <1>5
<1>7. f.email # "absent" /\ f.email # "blank" /\ f.author # "absent"
      /\ f.author # "blank" /\ f.comment # "absent" /\ f.comment # "blank"
  BY <1>6 DEF checks
<1>8. f.email \in Field /\ f.author \in Field /\ f.comment \in Field
  BY DEF Form
<1>9. f.email = "filled" /\ f.author = "filled" /\ f.comment = "filled"
  BY <1>7, <1>8 DEF Field
<1> QED BY <1>9

\* what save_comment makes of a form, at time t
Checked(f, t) ==
  FirstError(<< <<f.request # "none", f.request>>,
                <<SpamCheck(f, t) # "none", SpamCheck(f, t)>>,
                <<GetStrings(f) # "none", GetStrings(f)>> >>)

LEMMA CheckedResult ==
  ASSUME NEW f \in Form, NEW t \in StartClock..MaxClock
  PROVE  /\ Checked(f, t) \in Results
         /\ Checked(f, t) = "none" =>
              /\ f.request = "none" /\ f.empty = "blank" /\ f.captcha = Captcha
              /\ t - f.date \in MinThink..MaxThink
              /\ {f.email, f.author, f.comment} = {"filled"}
<1> DEFINE checks == << <<f.request # "none", f.request>>,
                        <<SpamCheck(f, t) # "none", SpamCheck(f, t)>>,
                        <<GetStrings(f) # "none", GetStrings(f)>> >>
<1>1. SpamCheck(f, t) \in Results
  <2> DEFINE spam == << <<f.empty # "blank", "generic">>,
                        <<f.date = Absent, "generic">>,
                        <<ThinkTime(t, f.date) \notin MinThink..MaxThink, "generic">>,
                        <<f.captcha = Absent, "generic">>,
                        <<f.captcha # Captcha, "captcha">> >>
  <2>1. DOMAIN spam = 1..5
    OBVIOUS
  <2>3. /\ spam[1][2] \in Results /\ spam[2][2] \in Results /\ spam[3][2] \in Results
        /\ spam[4][2] \in Results /\ spam[5][2] \in Results
    BY DEF Results
  <2>2. SpamCheck(f, t) = FirstError(spam)
    BY DEF SpamCheck
  <2> HIDE DEF spam
  <2>4. \A i \in DOMAIN spam : spam[i][2] \in Results
    BY <2>1, <2>3
  <2> QED BY <2>1, <2>2, <2>4, FirstErrorIn
<1>2. GetStrings(f) \in Results
  <2> DEFINE fields == << <<f.email = "absent", "generic">>,   <<f.email = "blank", "no email">>,
                          <<f.author = "absent", "generic">>,  <<f.author = "blank", "no name">>,
                          <<f.comment = "absent", "generic">>, <<f.comment = "blank", "no content">>,
                          <<f.url = "absent", "generic">> >>
  <2>1. DOMAIN fields = 1..7
    OBVIOUS
  <2>3. /\ fields[1][2] \in Results /\ fields[2][2] \in Results /\ fields[3][2] \in Results
        /\ fields[4][2] \in Results /\ fields[5][2] \in Results /\ fields[6][2] \in Results
        /\ fields[7][2] \in Results
    BY DEF Results
  <2>2. GetStrings(f) = FirstError(fields)
    BY DEF GetStrings
  <2> HIDE DEF fields
  <2>4. \A i \in DOMAIN fields : fields[i][2] \in Results
    BY <2>1, <2>3
  <2> QED BY <2>1, <2>2, <2>4, FirstErrorIn
<1>3. f.request \in Results
  BY DEF Form, Results
<1>4. DOMAIN checks = 1..3
  OBVIOUS
<1>10. /\ checks[1][2] \in Results /\ (checks[1][1] => checks[1][2] # "none")
       /\ checks[2][2] \in Results /\ (checks[2][1] => checks[2][2] # "none")
       /\ checks[3][2] \in Results /\ (checks[3][1] => checks[3][2] # "none")
  BY <1>1, <1>2, <1>3
<1>6. Checked(f, t) = FirstError(checks)
  BY DEF Checked
<1> HIDE DEF checks
<1>5. \A i \in DOMAIN checks : checks[i][2] \in Results /\ (checks[i][1] => checks[i][2] # "none")
  BY <1>4, <1>10
<1>7. Checked(f, t) \in Results
  BY <1>4, <1>5, <1>6, FirstErrorIn
<1>8. ASSUME Checked(f, t) = "none" PROVE \A i \in DOMAIN checks : ~checks[i][1]
  <2>1. \A i \in DOMAIN checks : checks[i][1] => checks[i][2] # "none"
    BY <1>5
  <2>2. DOMAIN checks \subseteq 1..7
    BY <1>4
  <2>3. FirstError(checks) = "none"
    BY <1>6, <1>8
  <2> QED BY <2>1, <2>2, <2>3, NoFirstError
<1>9. ASSUME Checked(f, t) = "none"
      PROVE  f.request = "none" /\ SpamCheck(f, t) = "none" /\ GetStrings(f) = "none"
  <2>1. ~checks[1][1] /\ ~checks[2][1] /\ ~checks[3][1]
    BY <1>4, <1>8, <1>9
  <2> QED BY <2>1 DEF checks
<1> QED BY <1>7, <1>9, SpamCheckPassed, GetStringsPassed

-----------------------------------------------------------------------------
(* The steps *)

Step(w) == Submit(w) \/ GetPost(w) \/ GetTime(w) \/ MakeName(w) \/ MakeDir(w)
           \/ WriteText(w) \/ PrepMeta(w) \/ WriteMeta(w) \/ Rename(w) \/ Answer(w)

LEMMA InitIInv == Init => IInv
<1> SUFFICES ASSUME Init PROVE IInv
  OBVIOUS
<1>1. forms \in [1..requests -> Forms] /\ arrival \in [1..requests -> StartClock..MaxClock]
  BY DEF Init
<1>2. clock \in StartClock..MaxClock
  BY CommentAssumption DEF Init
<1>3. TypeOK
  BY <1>1, <1>2 DEF Init, TypeOK, Results, NoRefs
<1>4. NameInv /\ RequestInv /\ PassedInv /\ WorkInv
  BY DEF Init, NameInv, Named, RequestInv, PassedInv, Saving, WorkInv, Owns
<1>5. PublishedInv
  BY DEF Init, PublishedInv, Published
<1> QED BY <1>3, <1>4, <1>5 DEF IInv

\* the request that comes in, and what is then known of all requests
LEMMA SubmitEffect ==
  ASSUME TypeOK, NEW w \in Workers, Submit(w)
  PROVE  /\ pc[w] = "idle"
         /\ requests' = requests + 1
         /\ req' = [req EXCEPT ![w] = requests + 1]
         /\ forms' \in [1..requests' -> Forms] /\ arrival' \in [1..requests' -> StartClock..MaxClock]
         /\ form' \in [Workers -> Forms \cup {None}]
         /\ err' \in [Workers -> Results]
         /\ refs' \in [Workers -> [Strings -> Int]]
         /\ err' = [err EXCEPT ![w] = err'[w]]
         /\ pc' = [pc EXCEPT ![w] = IF err'[w] = "none" THEN "get_post" ELSE "done"]
         /\ err'[w] = "none" => Passed(requests)'
         /\ \A r \in 1..requests : Passed(r)' <=> Passed(r)
         /\ UNCHANGED <<clock, nonce, dirs, crashes, now, name, answered>>
<1>1. PICK f \in Forms :
        /\ form' = [form EXCEPT ![w] = f]
        /\ forms' = [r \in 1..(requests + 1) |-> IF r = requests + 1 THEN f ELSE forms[r]]
        /\ err' = [err EXCEPT ![w] = Checked(f, clock)]
        /\ pc' = [pc EXCEPT ![w] = IF Checked(f, clock) = "none" THEN "get_post" ELSE "done"]
        /\ refs' = [refs EXCEPT ![w] =
                      IF Checked(f, clock) # "none" THEN NoRefs
                      ELSE [s \in Strings |-> IF s = "url" /\ f.url = "blank" THEN 0 ELSE 1]]
  BY DEF Submit, Checked
<1>2. f \in Form
  BY CommentAssumption
<1>3. clock \in StartClock..MaxClock /\ requests \in Nat
  BY DEF TypeOK
<1>4. arrival' = [r \in 1..(requests + 1) |-> IF r = requests + 1 THEN clock ELSE arrival[r]]
  BY DEF Submit
<1>5. /\ pc[w] = "idle" /\ requests' = requests + 1 /\ req' = [req EXCEPT ![w] = requests + 1]
      /\ UNCHANGED <<clock, nonce, dirs, crashes, now, name, answered>>
  BY DEF Submit, shared
<1>6. forms' \in [1..requests' -> Forms] /\ arrival' \in [1..requests' -> StartClock..MaxClock]
  <2>1. \A r \in 1..(requests + 1) : r # requests + 1 => r \in 1..requests
    BY <1>3
  <2>2. forms \in [1..requests -> Forms] /\ arrival \in [1..requests -> StartClock..MaxClock]
    BY DEF TypeOK
  <2>3. forms' \in [1..(requests + 1) -> Forms]
    BY <1>1, <2>1, <2>2
  <2>4. arrival' \in [1..(requests + 1) -> StartClock..MaxClock]
    BY <1>3, <1>4, <2>1, <2>2
  <2> QED BY <1>5, <2>3, <2>4
<1>7. err'[w] = Checked(f, clock) /\ err' \in [Workers -> Results]
  BY <1>1, <1>2, <1>3, CheckedResult DEF TypeOK
<1>8. form' \in [Workers -> Forms \cup {None}]
  BY <1>1 DEF TypeOK
<1>9. refs' \in [Workers -> [Strings -> Int]]
  <2> DEFINE some == [s \in Strings |-> IF s = "url" /\ f.url = "blank" THEN 0 ELSE 1]
  <2>1. NoRefs \in [Strings -> Int] /\ some \in [Strings -> Int]
    BY DEF NoRefs
  <2>2. refs \in [Workers -> [Strings -> Int]]
    BY DEF TypeOK
  <2> QED BY <1>1, <2>1, <2>2
<1>10. forms'[requests'] = f /\ arrival'[requests'] = clock
  BY <1>1, <1>3, <1>4, <1>5
<1>11. err'[w] = "none" => Passed(requests)'
  <2> SUFFICES ASSUME Checked(f, clock) = "none" PROVE Passed(requests)'
    BY <1>7
  <2>1. /\ f.request = "none" /\ f.empty = "blank" /\ f.captcha = Captcha
        /\ clock - f.date \in MinThink..MaxThink
        /\ {f.email, f.author, f.comment} = {"filled"}
    BY <1>2, <1>3, CheckedResult
  <2> QED BY <1>5, <1>10, <2>1 DEF Passed
<1>12. ASSUME NEW r \in 1..requests PROVE Passed(r)' <=> Passed(r)
  <2>1. forms'[r] = forms[r] /\ arrival'[r] = arrival[r]
    BY <1>1, <1>3, <1>4, <1>5
  <2> QED BY <2>1 DEF Passed
<1>13. err' = [err EXCEPT ![w] = err'[w]]
  BY <1>1, <1>7
<1>14. pc' = [pc EXCEPT ![w] = IF err'[w] = "none" THEN "get_post" ELSE "done"]
  BY <1>1, <1>7
<1> QED BY <1>5, <1>6, <1>7, <1>8, <1>9, <1>11, <1>12, <1>13, <1>14

\* what a step towards an answer changes of what it is about
LEMMA SavingEffect ==
  ASSUME TypeOK, NEW w \in Workers, Step(w), ~Submit(w), ~Answer(w)
  PROVE  /\ UNCHANGED <<clock, requests, crashes, forms, arrival, answered, req, form>>
         /\ pc[w] \notin {"idle", "done"}
         /\ pc'[w] # "idle"
         /\ pc' = [pc EXCEPT ![w] = pc'[w]]
         /\ err' = [err EXCEPT ![w] = err'[w]]
         /\ err'[w] \in Results
         /\ pc'[w] # "done" => err'[w] = err[w]
         /\ refs' \in [Workers -> [Strings -> Int]]
         /\ \A r : Passed(r)' <=> Passed(r)
<1> USE DEF world, shared, local
<1>1. ASSUME NEW times \in [Strings -> Int], Put(w, times)
      PROVE  refs' \in [Workers -> [Strings -> Int]]
  <2> DEFINE left == [s \in Strings |-> IF s = "url" /\ form[w].url = "blank" THEN 0
                                        ELSE refs[w][s] - times[s]]
  <2>1. refs \in [Workers -> [Strings -> Int]]
    BY DEF TypeOK
  <2>2. left \in [Strings -> Int]
    BY <1>1, <2>1
  <2>3. refs' = [refs EXCEPT ![w] = left]
    BY <1>1 DEF Put
  <2> QED BY <2>1, <2>2, <2>3
<1>2. ASSUME NEW e \in Results, Fail(w, e)
      PROVE  /\ refs' \in [Workers -> [Strings -> Int]]
             /\ pc' = [pc EXCEPT ![w] = "done"] /\ err' = [err EXCEPT ![w] = e]
  BY <1>1, <1>2 DEF Fail, Once
<1>3. "internal" \in Results /\ "generic" \in Results
  BY DEF Results
<1>4. pc \in [Workers -> {"idle", "get_post", "gettime", "name", "mkdir", "text", "meta",
                          "write meta", "rename", "done"}]
      /\ err \in [Workers -> Results] /\ refs \in [Workers -> [Strings -> Int]]
  BY DEF TypeOK
<1>5. CASE GetPost(w)
  BY <1>2, <1>3, <1>4, <1>5 DEF GetPost, GoTo, Passed
<1>6. CASE GetTime(w)
  BY <1>2, <1>3, <1>4, <1>6 DEF GetTime, GoTo, Passed
<1>7. CASE MakeName(w)
  BY <1>2, <1>3, <1>4, <1>7 DEF MakeName, GoTo, Passed
<1>8. CASE MakeDir(w)
  BY <1>2, <1>3, <1>4, <1>8 DEF MakeDir, GoTo, Passed
<1>9. CASE WriteText(w)
  BY <1>2, <1>3, <1>4, <1>9 DEF WriteText, GoTo, Passed
<1>10. CASE PrepMeta(w)
  <2> DEFINE once == Once({"author", "email", "url"})
  <2>1. once \in [Strings -> Int] /\ [s \in Strings |-> once[s] + 1] \in [Strings -> Int]
    BY DEF Once
  <2>2. refs' \in [Workers -> [Strings -> Int]]
    BY <1>1, <1>10, <2>1 DEF PrepMeta
  <2> QED BY <1>3, <1>4, <1>10, <2>2 DEF PrepMeta, GoTo, Passed
<1>11. CASE WriteMeta(w)
  BY <1>2, <1>3, <1>4, <1>11 DEF WriteMeta, GoTo, Passed
<1>12. CASE Rename(w)
  BY <1>2, <1>3, <1>4, <1>12 DEF Rename, GoTo, Passed
<1> QED BY <1>5, <1>6, <1>7, <1>8, <1>9, <1>10, <1>11, <1>12 DEF Step

-----------------------------------------------------------------------------
(* What the steps change *)

LEMMA ClockRange == StartClock \in Nat /\ MaxClock \in Nat /\ StartClock <= MaxClock
<1>1. MinThink \in Nat /\ Word \in Int
  BY CommentAssumption
<1>2. MaxThink \in Nat /\ MaxClock \in Nat
  BY <1>1, CommentAssumption
<1> QED BY <1>2, CommentAssumption

LEMMA NextNumber ==
  ASSUME NEW k \in Nat
  PROVE  k + 1 \in 1..(k + 1) /\ \A n \in 1..k : n \in 1..(k + 1) /\ n # k + 1
OBVIOUS

\* a function with one value changed
LEMMA Update ==
  ASSUME NEW S, NEW T, NEW f \in [S -> T], NEW w \in S, NEW x \in T
  PROVE  /\ [f EXCEPT ![w] = x] \in [S -> T]
         /\ [f EXCEPT ![w] = x][w] = x
         /\ \A v \in S \ {w} : [f EXCEPT ![w] = x][v] = f[v]
OBVIOUS

LEMMA Types ==
  ASSUME TypeOK
  PROVE  /\ pc \in [Workers -> Places] /\ err \in [Workers -> Results]
         /\ req \in [Workers -> Nat] /\ requests \in Nat /\ nonce \in Nat
         /\ name \in [Workers -> (Nat \X Nat) \cup {None}] /\ now \in [Workers -> Nat]
         /\ dirs \subseteq Dir
BY DEF TypeOK, Places, Dir

\* a new request, seen from each worker
LEMMA SubmitWorkers ==
  ASSUME TypeOK, NEW w \in Workers, Submit(w)
  PROVE  /\ pc' \in [Workers -> Places] /\ req' \in [Workers -> Nat]
         /\ req'[w] = requests'
         /\ pc'[w] = IF err'[w] = "none" THEN "get_post" ELSE "done"
         /\ \A v \in Workers \ {w} : pc'[v] = pc[v] /\ req'[v] = req[v] /\ err'[v] = err[v]
<1>1. /\ pc \in [Workers -> Places] /\ err \in [Workers -> Results]
      /\ req \in [Workers -> Nat] /\ requests \in Nat
  BY Types
<1>2. /\ requests' = requests + 1
      /\ req' = [req EXCEPT ![w] = requests + 1]
      /\ err' = [err EXCEPT ![w] = err'[w]]
      /\ pc' = [pc EXCEPT ![w] = IF err'[w] = "none" THEN "get_post" ELSE "done"]
  BY SubmitEffect
<1>3. (IF err'[w] = "none" THEN "get_post" ELSE "done") \in Places
  BY DEF Places
<1>4. /\ pc' \in [Workers -> Places]
      /\ pc'[w] = IF err'[w] = "none" THEN "get_post" ELSE "done"
      /\ \A v \in Workers \ {w} : pc'[v] = pc[v]
  <2> DEFINE place == IF err'[w] = "none" THEN "get_post" ELSE "done"
  <2>1. place \in Places
    BY <1>3
  <2>2. pc' = [pc EXCEPT ![w] = place]
    BY <1>2
  <2> HIDE DEF place
  <2>3. pc' \in [Workers -> Places] /\ pc'[w] = place /\ \A v \in Workers \ {w} : pc'[v] = pc[v]
    BY <1>1, <2>1, <2>2
  <2> QED BY <2>3 DEF place
<1>5. req' \in [Workers -> Nat] /\ req'[w] = requests' /\ \A v \in Workers \ {w} : req'[v] = req[v]
  BY <1>1, <1>2
<1>6. \A v \in Workers \ {w} : err'[v] = err[v]
  BY <1>1, <1>2
<1> QED BY <1>4, <1>5, <1>6

\* a step towards an answer, seen from each worker
LEMMA SavingWorkers ==
  ASSUME TypeOK, NEW w \in Workers, Step(w), ~Submit(w), ~Answer(w)
  PROVE  /\ pc' \in [Workers -> Places] /\ err' \in [Workers -> Results]
         /\ \A v \in Workers \ {w} : pc'[v] = pc[v] /\ err'[v] = err[v]
<1>1. pc \in [Workers -> Places] /\ err \in [Workers -> Results]
  BY Types
<1>2. /\ pc' = [pc EXCEPT ![w] = pc'[w]] /\ err' = [err EXCEPT ![w] = err'[w]]
      /\ err'[w] \in Results
  BY SavingEffect
<1>3. pc'[w] \in Places
  BY <1>1 DEF Step, GetPost, GetTime, MakeName, MakeDir, WriteText, PrepMeta, WriteMeta, Rename,
              GoTo, Fail, Places
<1> QED BY <1>1, <1>2, <1>3

LEMMA AnswerWorkers ==
  ASSUME TypeOK, NEW w \in Workers, Answer(w)
  PROVE  /\ pc[w] = "done" /\ pc'[w] = "idle"
         /\ answered' = answered \cup {[request |-> req[w], err |-> err[w]]}
         /\ \A v \in Workers \ {w} : pc'[v] = pc[v] /\ req'[v] = req[v] /\ err'[v] = err[v]
         /\ UNCHANGED <<nonce, dirs, name, requests, forms, arrival>>
<1>1. /\ pc \in [Workers -> Places] /\ err \in [Workers -> Results]
      /\ req \in [Workers -> Nat]
  BY Types
<1> QED BY <1>1 DEF Answer, shared

-----------------------------------------------------------------------------
(* The types *)

LEMMA TypeStep ==
  ASSUME TypeOK, NameInv, [Next]_vars
  PROVE  TypeOK'
<1>1. ASSUME NEW w \in Workers, Submit(w) PROVE TypeOK'
  <2>1. pc' \in [Workers -> Places] /\ req' \in [Workers -> Nat]
    BY <1>1, SubmitWorkers
  <2>2. /\ requests' = requests + 1
        /\ forms' \in [1..requests' -> Forms] /\ arrival' \in [1..requests' -> StartClock..MaxClock]
        /\ form' \in [Workers -> Forms \cup {None}]
        /\ err' \in [Workers -> Results]
        /\ refs' \in [Workers -> [Strings -> Int]]
        /\ UNCHANGED <<clock, nonce, dirs, crashes, now, name, answered>>
    BY <1>1, SubmitEffect
  <2>3. requests' \in Nat
    BY <2>2, Types
  <2> QED BY <2>1, <2>2, <2>3 DEF TypeOK, Places
<1>2. ASSUME NEW w \in Workers, Step(w), ~Submit(w), ~Answer(w) PROVE TypeOK'
  <2>1. /\ UNCHANGED <<clock, requests, crashes, forms, arrival, answered, req, form>>
        /\ refs' \in [Workers -> [Strings -> Int]]
    BY <1>2, SavingEffect
  <2>2. pc' \in [Workers -> Places] /\ err' \in [Workers -> Results]
    BY <1>2, SavingWorkers
  <2>3. now' \in [Workers -> Nat]
    <3>1. clock \in Nat
      <4>1. clock \in StartClock..MaxClock
        BY DEF TypeOK
      <4> QED BY <4>1, ClockRange
    <3>2. now \in [Workers -> Nat]
      BY Types
    <3> QED BY <1>2, <3>1, <3>2 DEF Step, GetPost, GetTime, MakeName, MakeDir, WriteText, PrepMeta,
                                   WriteMeta, Rename, local
  <2>4. nonce' \in Nat /\ name' \in [Workers -> (Nat \X Nat) \cup {None}]
    <3>1. /\ nonce \in Nat /\ name \in [Workers -> (Nat \X Nat) \cup {None}]
          /\ now \in [Workers -> Nat]
      BY Types
    <3>2. CASE MakeName(w)
      <4>1. nonce' = nonce + 1 /\ name' = [name EXCEPT ![w] = <<now[w], nonce + 1>>]
        BY <3>2 DEF MakeName
      <4>2. <<now[w], nonce + 1>> \in Nat \X Nat
        BY <3>1
      <4> QED BY <3>1, <4>1, <4>2
    <3>3. CASE ~MakeName(w)
      BY <1>2, <3>1, <3>3 DEF Step, GetPost, GetTime, MakeDir, WriteText, PrepMeta, WriteMeta,
                              Rename, shared
    <3> QED BY <3>2, <3>3
  <2>5. dirs' \subseteq Dir
    <3>1. dirs \subseteq Dir
      BY Types
    <3>2. CASE MakeDir(w)
      <4>1. name[w] \in Nat \X Nat
        BY <3>2 DEF NameInv, Named, MakeDir
      <4>2. EmptyDir(name[w], TRUE) \in Dir
        BY <4>1 DEF EmptyDir, Dir
      <4> QED BY <3>1, <3>2, <4>2 DEF MakeDir
    <3>3. ASSUME NEW d \in Dir, NEW n \in Int
          PROVE  /\ [d EXCEPT !.text = n] \in Dir /\ [d EXCEPT !.meta = n] \in Dir
                 /\ [d EXCEPT !.work = FALSE] \in Dir
      BY DEF Dir
    <3>4. req[w] \in Int /\ -1 \in Int
      BY Types
    <3>5. CASE WriteText(w)
      <4>1. PICK d \in WorkDirs(name[w]) :
              \/ dirs' = (dirs \ WorkDirs(name[w])) \cup {[d EXCEPT !.text = req[w]]}
              \/ dirs' \in {dirs, (dirs \ {d}) \cup {[d EXCEPT !.text = -1]}}
        BY <3>5 DEF WriteText, WriteIn
      <4>2. d \in Dir
        BY <3>1 DEF WorkDirs
      <4>3. [d EXCEPT !.text = req[w]] \in Dir /\ [d EXCEPT !.text = -1] \in Dir
        BY <3>3, <3>4, <4>2
      <4> QED BY <3>1, <4>1, <4>3
    <3>6. CASE WriteMeta(w)
      <4>1. PICK d \in WorkDirs(name[w]) :
              \/ dirs' = (dirs \ WorkDirs(name[w])) \cup {[d EXCEPT !.meta = req[w]]}
              \/ dirs' \in {dirs, (dirs \ {d}) \cup {[d EXCEPT !.meta = -1]}}
        BY <3>6 DEF WriteMeta, WriteIn
      <4>2. d \in Dir
        BY <3>1 DEF WorkDirs
      <4>3. [d EXCEPT !.meta = req[w]] \in Dir /\ [d EXCEPT !.meta = -1] \in Dir
        BY <3>3, <3>4, <4>2
      <4> QED BY <3>1, <4>1, <4>3
    <3>7. CASE Rename(w)
      <4>1. dirs' = dirs \/ \E d \in dirs : dirs' = (dirs \ {d}) \cup {[d EXCEPT !.work = FALSE]}
        BY <3>7 DEF Rename, WorkDirs
      <4> QED BY <3>1, <3>3, <3>4, <4>1
    <3>8. CASE GetPost(w) \/ GetTime(w) \/ MakeName(w) \/ PrepMeta(w)
      BY <3>1, <3>8 DEF GetPost, GetTime, MakeName, PrepMeta, shared
    <3> QED BY <1>2, <3>2, <3>5, <3>6, <3>7, <3>8 DEF Step
  <2> QED BY <2>1, <2>2, <2>3, <2>4, <2>5 DEF TypeOK, Places, Dir
<1>3. ASSUME NEW w \in Workers, Answer(w) PROVE TypeOK'
  <2>1. "none" \in Results /\ NoRefs \in [Strings -> Int] /\ "idle" \in Places
    BY DEF Results, NoRefs, Places
  <2>2. /\ pc \in [Workers -> Places] /\ err \in [Workers -> Results] /\ req \in [Workers -> Nat]
        /\ refs \in [Workers -> [Strings -> Int]] /\ form \in [Workers -> Forms \cup {None}]
    BY Types DEF TypeOK
  <2>3. /\ pc' \in [Workers -> Places] /\ err' \in [Workers -> Results] /\ req' \in [Workers -> Nat]
        /\ refs' \in [Workers -> [Strings -> Int]] /\ form' \in [Workers -> Forms \cup {None}]
    BY <1>3, <2>1, <2>2 DEF Answer
  <2>4. answered' \subseteq [request : Nat, err : Results]
    <3>1. [request |-> req[w], err |-> err[w]] \in [request : Nat, err : Results]
      BY <2>2
    <3>2. answered \subseteq [request : Nat, err : Results]
      BY DEF TypeOK
    <3> QED BY <1>3, <3>1, <3>2, AnswerWorkers
  <2>5. UNCHANGED <<clock, requests, crashes, forms, arrival, nonce, dirs, now, name>>
    BY <1>3 DEF Answer, shared
  <2> QED BY <2>3, <2>4, <2>5 DEF TypeOK, Places
<1>4. CASE Tick
  <2>1. clock' \in StartClock..MaxClock
    <3>1. clock \in StartClock..MaxClock
      BY DEF TypeOK
    <3>2. clock < MaxClock /\ clock' = clock + 1
      BY <1>4 DEF Tick
    <3> QED BY <3>1, <3>2, ClockRange
  <2>2. UNCHANGED <<requests, crashes, forms, arrival, answered, nonce, dirs, pc, req, form, now,
                    name, refs, err>>
    BY <1>4 DEF Tick, shared, local
  <2> QED BY <2>1, <2>2 DEF TypeOK
<1>5. CASE Crash
  <2>1. "none" \in Results /\ NoRefs \in [Strings -> Int]
    BY DEF Results, NoRefs
  <2> QED BY <1>5, <2>1 DEF Crash, TypeOK
<1>6. CASE UNCHANGED vars
  BY <1>6 DEF vars, TypeOK
<1> QED BY <1>1, <1>2, <1>3, <1>4, <1>5, <1>6 DEF Next, Ended, Step
-----------------------------------------------------------------------------
(* Names, requests and the checks *)

LEMMA NewName ==
  ASSUME TypeOK, NEW w \in Workers, MakeName(w)
  PROVE  /\ name'[w] \in Nat \X Nat /\ name'[w][2] = nonce'
         /\ \A v \in Workers \ {w} : name'[v] = name[v]
         /\ nonce' \in 1..nonce' /\ \A n \in 1..nonce : n \in 1..nonce' /\ n # nonce'
<1>1. nonce' = nonce + 1 /\ name' = [name EXCEPT ![w] = <<now[w], nonce + 1>>]
  BY DEF MakeName
<1>2. /\ nonce \in Nat /\ name \in [Workers -> (Nat \X Nat) \cup {None}]
      /\ now \in [Workers -> Nat]
  BY Types
<1>3. name'[w] = <<now[w], nonce + 1>> /\ \A v \in Workers \ {w} : name'[v] = name[v]
  BY <1>1, <1>2
<1>4. now[w] \in Nat /\ nonce + 1 \in Nat
  BY <1>2
<1>5. <<now[w], nonce + 1>> \in Nat \X Nat /\ <<now[w], nonce + 1>>[2] = nonce + 1
  BY <1>4
<1>6. nonce' \in 1..nonce' /\ \A n \in 1..nonce : n \in 1..nonce' /\ n # nonce'
  BY <1>1, <1>2, NextNumber
<1> QED BY <1>1, <1>3, <1>5, <1>6

LEMMA NameStep ==
  ASSUME TypeOK, NameInv, [Next]_vars
  PROVE  NameInv'
<1> USE DEF NameInv, Named
<1>1. ASSUME NEW w \in Workers, Submit(w) PROVE NameInv'
  <2>1. pc'[w] \in {"get_post", "done"} /\ \A v \in Workers \ {w} : pc'[v] = pc[v]
    BY <1>1, SubmitWorkers
  <2>2. UNCHANGED <<name, nonce>>
    BY <1>1, SubmitEffect
  <2> QED BY <2>1, <2>2
<1>2. ASSUME NEW w \in Workers, Step(w), ~Submit(w), ~Answer(w) PROVE NameInv'
  <2>1. \A v \in Workers \ {w} : pc'[v] = pc[v]
    BY <1>2, SavingWorkers
  <2>2. CASE MakeName(w)
    <3>1. /\ name'[w] \in Nat \X Nat /\ name'[w][2] = nonce'
          /\ \A v \in Workers \ {w} : name'[v] = name[v]
      BY <2>2, NewName
    <3>2. nonce' \in 1..nonce' /\ \A n \in 1..nonce : n \in 1..nonce' /\ n # nonce'
      BY <2>2, NewName
    <3>3. \A v \in Workers \ {w} : Named(v) => /\ name'[v] = name[v] /\ name[v][2] \in 1..nonce'
                                               /\ name'[v] # name'[w]
      <4> SUFFICES ASSUME NEW v \in Workers, v # w, Named(v)
                   PROVE  /\ name'[v] = name[v] /\ name[v][2] \in 1..nonce'
                          /\ name'[v] # name'[w]
        OBVIOUS
      <4>1. name'[v] = name[v] /\ name[v][2] \in 1..nonce
        BY <3>1
      <4>2. name[v][2] \in 1..nonce' /\ name[v][2] # name'[w][2]
        BY <3>1, <3>2, <4>1
      <4> QED BY <4>1, <4>2
    <3> HIDE DEF Named
    <3>4. \A v \in Workers \ {w} : Named(v)' <=> Named(v)
      BY <2>1 DEF Named
    <3>5. ASSUME NEW v \in Workers, Named(v)'
          PROVE  /\ name'[v] \in Nat \X Nat /\ name'[v][2] \in 1..nonce'
                 /\ \A u \in Workers : Named(u)' /\ name'[u] = name'[v] => u = v
      <4>1. CASE v = w
        BY <3>1, <3>2, <3>3, <3>4, <4>1
      <4>2. CASE v # w
        BY <3>1, <3>3, <3>4, <3>5, <4>2
      <4> QED BY <4>1, <4>2
    <3> QED BY <3>5
  <2>3. CASE ~MakeName(w)
    <3>1. UNCHANGED <<name, nonce>>
      BY <1>2, <2>3 DEF Step, GetPost, GetTime, MakeDir, WriteText, PrepMeta, WriteMeta, Rename,
                        shared
    <3>2. pc \in [Workers -> Places]
      BY Types
    <3>3. pc'[w] \in {"mkdir", "text", "meta", "write meta", "rename"}
          => pc[w] \in {"mkdir", "text", "meta", "write meta", "rename"}
      BY <1>2, <2>3, <3>2 DEF Step, GetPost, GetTime, MakeDir, WriteText, PrepMeta, WriteMeta,
                              Rename, GoTo, Fail
    <3> QED BY <2>1, <3>1, <3>3
  <2> QED BY <2>2, <2>3
<1>3. ASSUME NEW w \in Workers, Answer(w) PROVE NameInv'
  <2>1. /\ pc'[w] = "idle" /\ \A v \in Workers \ {w} : pc'[v] = pc[v]
        /\ UNCHANGED <<name, nonce>>
    BY <1>3, AnswerWorkers
  <2> QED BY <2>1
<1>4. CASE Tick
  BY <1>4 DEF Tick, shared, local
<1>5. CASE Crash
  BY <1>5 DEF Crash
<1>6. CASE UNCHANGED vars
  BY <1>6 DEF vars
<1> QED BY <1>1, <1>2, <1>3, <1>4, <1>5, <1>6 DEF Next, Ended, Step

LEMMA RequestStep ==
  ASSUME TypeOK, RequestInv, [Next]_vars
  PROVE  RequestInv'
<1> USE DEF RequestInv
<1>1. ASSUME NEW w \in Workers, Submit(w) PROVE RequestInv'
  <2>1. \A v \in Workers \ {w} : pc'[v] = pc[v] /\ req'[v] = req[v]
    BY <1>1, SubmitWorkers
  <2>2. req'[w] = requests'
    BY <1>1, SubmitWorkers
  <2>3. requests' = requests + 1 /\ answered' = answered
    BY <1>1, SubmitEffect
  <2>4. requests \in Nat
    BY Types
  <2>5. requests' \in 1..requests' /\ \A r \in 1..requests : r \in 1..requests' /\ r # requests'
    BY <2>3, <2>4
  <2> QED BY <2>1, <2>2, <2>3, <2>5
<1>2. ASSUME NEW w \in Workers, Step(w), ~Submit(w), ~Answer(w) PROVE RequestInv'
  <2>1. \A v \in Workers \ {w} : pc'[v] = pc[v]
    BY <1>2, SavingWorkers
  <2>2. pc[w] # "idle" /\ UNCHANGED <<req, requests, answered>>
    BY <1>2, SavingEffect
  <2> QED BY <2>1, <2>2
<1>3. ASSUME NEW w \in Workers, Answer(w) PROVE RequestInv'
  <2>1. /\ pc[w] = "done" /\ answered' = answered \cup {[request |-> req[w], err |-> err[w]]}
        /\ pc'[w] = "idle" /\ \A v \in Workers \ {w} : pc'[v] = pc[v] /\ req'[v] = req[v]
        /\ UNCHANGED requests
    BY <1>3, AnswerWorkers
  <2> QED BY <2>1
<1>4. CASE Tick
  BY <1>4 DEF Tick, local
<1>5. CASE Crash
  BY <1>5 DEF Crash
<1>6. CASE UNCHANGED vars
  BY <1>6 DEF vars
<1> QED BY <1>1, <1>2, <1>3, <1>4, <1>5, <1>6 DEF Next, Ended, Step

\* what is known of the requests so far does not change
LEMMA PassedKept ==
  ASSUME TypeOK, [Next]_vars, NEW r \in 1..requests
  PROVE  Passed(r)' <=> Passed(r)
<1>1. ASSUME NEW w \in Workers, Submit(w) PROVE Passed(r)' <=> Passed(r)
  BY <1>1, SubmitEffect
<1>2. CASE UNCHANGED <<forms, arrival>>
  BY <1>2 DEF Passed
<1>3. UNCHANGED <<forms, arrival>> \/ \E w \in Workers : Submit(w)
  BY DEF Next, Ended, vars, GetPost, GetTime, MakeName, MakeDir, WriteText, PrepMeta, WriteMeta,
         Rename, Answer, Tick, Crash, world
<1> QED BY <1>1, <1>2, <1>3

LEMMA PassedStep ==
  ASSUME TypeOK, RequestInv, PassedInv, [Next]_vars
  PROVE  PassedInv'
<1> USE DEF PassedInv, Saving
<1>1. ASSUME NEW w \in Workers, Submit(w) PROVE PassedInv'
  <2>1. \A v \in Workers \ {w} : pc'[v] = pc[v] /\ req'[v] = req[v] /\ err'[v] = err[v]
    BY <1>1, SubmitWorkers
  <2>2. ASSUME NEW v \in Workers \ {w}, Saving(v) PROVE Passed(req[v])'
    <3>1. req[v] \in 1..requests /\ Passed(req[v])
      BY <2>2 DEF RequestInv
    <3> DEFINE r == req[v]
    <3>2. r \in 1..requests /\ r = req'[v] /\ Passed(r)
      BY <2>1, <3>1
    <3> HIDE DEF r
    <3>3. \A k \in 1..requests : Passed(k)' <=> Passed(k)
      BY <1>1, SubmitEffect
    <3> QED BY <3>2, <3>3 DEF Passed
  <2>3. pc'[w] \notin {"idle", "done"} => err'[w] = "none" /\ Passed(req[w])'
    BY <1>1, SubmitWorkers, SubmitEffect DEF Passed
  <2> QED BY <2>1, <2>2, <2>3
<1>2. ASSUME NEW w \in Workers, Step(w), ~Submit(w), ~Answer(w) PROVE PassedInv'
  <2>1. \A v \in Workers \ {w} : pc'[v] = pc[v] /\ err'[v] = err[v]
    BY <1>2, SavingWorkers
  <2>2. /\ UNCHANGED <<req, forms, arrival>>
        /\ pc[w] \notin {"idle", "done"} /\ (pc'[w] # "done" => err'[w] = err[w])
    BY <1>2, SavingEffect
  <2> QED BY <2>1, <2>2 DEF Passed
<1>3. ASSUME NEW w \in Workers, Answer(w) PROVE PassedInv'
  <2>1. /\ pc'[w] = "idle" /\ UNCHANGED <<forms, arrival>>
        /\ \A v \in Workers \ {w} : pc'[v] = pc[v] /\ req'[v] = req[v] /\ err'[v] = err[v]
    BY <1>3, AnswerWorkers
  <2> QED BY <2>1 DEF Passed
<1>4. CASE Tick
  BY <1>4 DEF Tick, local, Passed
<1>5. CASE Crash
  BY <1>5 DEF Crash
<1>6. CASE UNCHANGED vars
  BY <1>6 DEF vars, Passed
<1> QED BY <1>1, <1>2, <1>3, <1>4, <1>5, <1>6 DEF Next, Ended, Step
-----------------------------------------------------------------------------
(* The work directories *)

\* a step of w leaves the directories of other names alone, and those of its
\* own name are only changed by some
LEMMA DirsEffect ==
  ASSUME TypeOK, NEW w \in Workers, Step(w)
  PROVE  /\ \A d : d.name # name[w] => (d \in dirs' <=> d \in dirs)
         /\ pc[w] \notin {"mkdir", "text", "write meta", "rename"} => dirs' = dirs
<1>1. dirs \subseteq Dir
  BY Types
<1>2. CASE MakeDir(w)
  BY <1>2 DEF MakeDir, EmptyDir
<1>3. ASSUME NEW d \in WorkDirs(name[w]), NEW n
      PROVE  /\ [d EXCEPT !.text = n].name = name[w] /\ [d EXCEPT !.meta = n].name = name[w]
             /\ [d EXCEPT !.work = FALSE].name = name[w] /\ d.name = name[w]
  BY <1>1 DEF WorkDirs, Dir
<1>4. CASE WriteText(w)
  <2>1. PICK d \in WorkDirs(name[w]) :
          \/ dirs' = (dirs \ WorkDirs(name[w])) \cup {[d EXCEPT !.text = req[w]]}
          \/ dirs' \in {dirs, (dirs \ {d}) \cup {[d EXCEPT !.text = -1]}}
    BY <1>4 DEF WriteText, WriteIn
  <2>2. pc[w] = "text"
    BY <1>4 DEF WriteText
  <2>3. /\ [d EXCEPT !.text = req[w]].name = name[w] /\ [d EXCEPT !.text = -1].name = name[w]
        /\ d.name = name[w]
    BY <1>3
  <2> QED BY <2>1, <2>2, <2>3 DEF WorkDirs
<1>5. CASE WriteMeta(w)
  <2>1. PICK d \in WorkDirs(name[w]) :
          \/ dirs' = (dirs \ WorkDirs(name[w])) \cup {[d EXCEPT !.meta = req[w]]}
          \/ dirs' \in {dirs, (dirs \ {d}) \cup {[d EXCEPT !.meta = -1]}}
    BY <1>5 DEF WriteMeta, WriteIn
  <2>2. pc[w] = "write meta"
    BY <1>5 DEF WriteMeta
  <2>3. /\ [d EXCEPT !.meta = req[w]].name = name[w] /\ [d EXCEPT !.meta = -1].name = name[w]
        /\ d.name = name[w]
    BY <1>3
  <2> QED BY <2>1, <2>2, <2>3 DEF WorkDirs
<1>6. CASE Rename(w)
  <2>1. dirs' = dirs \/ \E d \in WorkDirs(name[w]) :
          dirs' = (dirs \ {d}) \cup {[d EXCEPT !.work = FALSE]}
    BY <1>6 DEF Rename
  <2>2. pc[w] = "rename"
    BY <1>6 DEF Rename
  <2>3. ASSUME NEW d \in WorkDirs(name[w]), dirs' = (dirs \ {d}) \cup {[d EXCEPT !.work = FALSE]}
        PROVE  \A e : e.name # name[w] => (e \in dirs' <=> e \in dirs)
    <3>1. [d EXCEPT !.work = FALSE].name = name[w] /\ d.name = name[w]
      BY <1>3
    <3> QED BY <2>3, <3>1
  <2> QED BY <2>1, <2>2, <2>3
<1>7. CASE Submit(w) \/ GetPost(w) \/ GetTime(w) \/ MakeName(w) \/ PrepMeta(w) \/ Answer(w)
  BY <1>7 DEF Submit, GetPost, GetTime, MakeName, PrepMeta, Answer, shared
<1> QED BY <1>2, <1>4, <1>5, <1>6, <1>7 DEF Step

\* the directory that w is filling after its step
LEMMA OwnDir ==
  ASSUME TypeOK, WorkInv, NEW w \in Workers, Step(w), Owns(w)'
  PROVE  \E d \in dirs' : /\ WorkDirs(name[w])' = {d}
                          /\ pc'[w] # "text" => d.text = req'[w]
                          /\ pc'[w] = "rename" => d.meta = req'[w]
<1> USE DEF Owns
<1>1. pc \in [Workers -> Places] /\ dirs \subseteq Dir
  BY Types
<1>2. ~Submit(w) /\ ~Answer(w)
  <2>1. Submit(w) => pc'[w] \in {"get_post", "done"}
    BY SubmitWorkers
  <2>2. Answer(w) => pc'[w] = "idle"
    BY AnswerWorkers
  <2> QED BY <2>1, <2>2
<1>3. req' = req
  BY <1>2, SavingEffect
<1>4. CASE MakeDir(w)
  <2> DEFINE new == EmptyDir(name[w], TRUE)
  <2>1. name' = name /\ pc'[w] = "text" /\ WorkDirs(name[w]) = {} /\ dirs' = dirs \cup {new}
    BY <1>1, <1>4 DEF MakeDir, GoTo, Fail
  <2>2. new.name = name[w] /\ new.work
    BY DEF EmptyDir
  <2> HIDE DEF new
  <2>3. WorkDirs(name[w])' = {new}
    BY <2>1, <2>2 DEF WorkDirs
  <2> QED BY <2>1, <2>3
<1>5. CASE WriteText(w)
  <2>1. PICK d \in WorkDirs(name[w]) : dirs' = (dirs \ WorkDirs(name[w])) \cup {[d EXCEPT !.text = req[w]]}
    BY <1>1, <1>5 DEF WriteText, WriteIn, Fail
  <2>2. name' = name /\ pc'[w] = "meta"
    BY <1>1, <1>5 DEF WriteText, GoTo, Fail, local
  <2> DEFINE new == [d EXCEPT !.text = req[w]]
  <2>3. new.name = name[w] /\ new.work /\ new.text = req[w]
    BY <1>1 DEF WorkDirs, Dir
  <2>4. dirs' = (dirs \ WorkDirs(name[w])) \cup {new}
    BY <2>1
  <2> HIDE DEF new
  <2>5. WorkDirs(name[w])' = {new}
    BY <2>2, <2>3, <2>4 DEF WorkDirs
  <2> QED BY <1>3, <2>2, <2>3, <2>4, <2>5
<1>6. CASE PrepMeta(w)
  <2>1. /\ name' = name /\ dirs' = dirs /\ pc[w] = "meta"
        /\ pc'[w] \in {"write meta", "done"}
    BY <1>1, <1>6 DEF PrepMeta, GoTo, shared, local
  <2> QED BY <1>3, <2>1 DEF WorkInv, WorkDirs
<1>7. CASE WriteMeta(w)
  <2>1. PICK d \in WorkDirs(name[w]) : dirs' = (dirs \ WorkDirs(name[w])) \cup {[d EXCEPT !.meta = req[w]]}
    BY <1>1, <1>7 DEF WriteMeta, WriteIn, Fail
  <2>2. name' = name /\ pc'[w] = "rename" /\ pc[w] = "write meta"
    BY <1>1, <1>7 DEF WriteMeta, GoTo, Fail, local
  <2> DEFINE new == [d EXCEPT !.meta = req[w]]
  <2>3. d.text = req[w]
    BY <2>2 DEF WorkInv
  <2>4. new.name = name[w] /\ new.work /\ new.text = req[w] /\ new.meta = req[w]
    BY <1>1, <2>3 DEF WorkDirs, Dir
  <2>5. dirs' = (dirs \ WorkDirs(name[w])) \cup {new}
    BY <2>1
  <2> HIDE DEF new
  <2>6. WorkDirs(name[w])' = {new}
    BY <2>2, <2>4, <2>5 DEF WorkDirs
  <2> QED BY <1>3, <2>4, <2>5, <2>6
<1>8. CASE GetPost(w) \/ GetTime(w) \/ MakeName(w) \/ Rename(w)
  <2>1. pc'[w] \in {"gettime", "name", "mkdir", "done"}
    BY <1>1, <1>8 DEF GetPost, GetTime, MakeName, Rename, GoTo, Fail
  <2> QED BY <2>1
<1> QED BY <1>2, <1>4, <1>5, <1>6, <1>7, <1>8 DEF Step

LEMMA WorkStep ==
  ASSUME TypeOK, NameInv, WorkInv, [Next]_vars
  PROVE  WorkInv'
<1>1. ASSUME NEW w \in Workers, Step(w) PROVE WorkInv'
  <2> SUFFICES ASSUME NEW v \in Workers, Owns(v)'
               PROVE  \E d \in dirs' : /\ WorkDirs(name[v])' = {d}
                                       /\ pc'[v] # "text" => d.text = req'[v]
                                       /\ pc'[v] = "rename" => d.meta = req'[v]
    BY DEF WorkInv
  <2>1. CASE v = w
    BY <1>1, <2>1, OwnDir
  <2>2. CASE v # w
    <3>1. pc'[v] = pc[v] /\ req'[v] = req[v] /\ name'[v] = name[v]
      <4>1. CASE Submit(w)
        BY <2>2, <4>1, SubmitWorkers, SubmitEffect
      <4>2. CASE Answer(w)
        BY <2>2, <4>2, AnswerWorkers
      <4>3. CASE ~Submit(w) /\ ~Answer(w)
        <5>1. name \in [Workers -> (Nat \X Nat) \cup {None}]
          BY Types
        <5>2. name'[v] = name[v]
          BY <1>1, <2>2, <4>3, <5>1 DEF Step, GetPost, GetTime, MakeName, MakeDir, WriteText,
                                        PrepMeta, WriteMeta, Rename
        <5> QED BY <1>1, <2>2, <4>3, <5>2, SavingWorkers, SavingEffect
      <4> QED BY <4>1, <4>2, <4>3
    <3>2. PICK d \in dirs : /\ WorkDirs(name[v]) = {d}
                            /\ pc[v] # "text" => d.text = req[v]
                            /\ pc[v] = "rename" => d.meta = req[v]
      BY <3>1 DEF WorkInv, Owns
    <3>3. WorkDirs(name[v])' = {d}
      <4>1. CASE pc[w] \in {"mkdir", "text", "write meta", "rename"}
        <5>1. name[v] # name[w]
          BY <2>2, <3>1, <4>1 DEF NameInv, Named, Owns
        <5>2. \A e : e.name # name[w] => (e \in dirs' <=> e \in dirs)
          BY <1>1, DirsEffect
        <5> QED BY <3>1, <3>2, <5>1, <5>2 DEF WorkDirs
      <4>2. CASE pc[w] \notin {"mkdir", "text", "write meta", "rename"}
        <5>1. dirs' = dirs
          BY <1>1, <4>2, DirsEffect
        <5> QED BY <3>1, <3>2, <5>1 DEF WorkDirs
      <4> QED BY <4>1, <4>2
    <3>4. d \in dirs'
      BY <3>3 DEF WorkDirs
    <3> QED BY <3>1, <3>2, <3>3, <3>4
  <2> QED BY <2>1, <2>2
<1>2. CASE Tick
  BY <1>2 DEF Tick, shared, local, WorkInv, Owns, WorkDirs
<1>3. CASE Crash
  BY <1>3 DEF Crash, WorkInv, Owns
<1>4. CASE UNCHANGED vars
  BY <1>4 DEF vars, WorkInv, Owns, WorkDirs
<1> QED BY <1>1, <1>2, <1>3, <1>4 DEF Next, Ended, Step
-----------------------------------------------------------------------------
(* What is published *)

\* one comment more is published, and its visitor will be told so; or none is,
\* and the visitor will be told of an error
LEMMA PublishedEffect ==
  ASSUME TypeOK, PassedInv, WorkInv, NEW w \in Workers, Step(w), ~Submit(w), ~Answer(w)
  PROVE  \/ /\ Published' = Published
            /\ pc'[w] = "done" => err'[w] # "none"
         \/ /\ pc[w] = "rename" /\ pc'[w] = "done" /\ err'[w] = "none"
            /\ \E new \in dirs' : /\ Published' = Published \cup {new}
                                  /\ new.text = req[w] /\ new.meta = req[w]
<1>1. pc \in [Workers -> Places] /\ err \in [Workers -> Results] /\ dirs \subseteq Dir
  BY Types
<1>2. err[w] = "none"
  BY SavingEffect DEF PassedInv, Saving
<1>3. ASSUME NEW d \in WorkDirs(name[w]), NEW n
      PROVE  d.work /\ [d EXCEPT !.text = n].work /\ [d EXCEPT !.meta = n].work
  BY <1>1 DEF WorkDirs, Dir
<1>4. CASE WriteText(w)
  <2>1. PICK d \in WorkDirs(name[w]) :
          \/ dirs' = (dirs \ WorkDirs(name[w])) \cup {[d EXCEPT !.text = req[w]]}
          \/ dirs' \in {dirs, (dirs \ {d}) \cup {[d EXCEPT !.text = -1]}}
    BY <1>4 DEF WriteText, WriteIn
  <2>2. d.work /\ [d EXCEPT !.text = req[w]].work /\ [d EXCEPT !.text = -1].work
    BY <1>3
  <2>3. Published' = Published
    BY <2>1, <2>2 DEF Published, WorkDirs
  <2> QED BY <1>1, <1>4, <2>3 DEF WriteText, GoTo, Fail
<1>5. CASE WriteMeta(w)
  <2>1. PICK d \in WorkDirs(name[w]) :
          \/ dirs' = (dirs \ WorkDirs(name[w])) \cup {[d EXCEPT !.meta = req[w]]}
          \/ dirs' \in {dirs, (dirs \ {d}) \cup {[d EXCEPT !.meta = -1]}}
    BY <1>5 DEF WriteMeta, WriteIn
  <2>2. d.work /\ [d EXCEPT !.meta = req[w]].work /\ [d EXCEPT !.meta = -1].work
    BY <1>3
  <2>3. Published' = Published
    BY <2>1, <2>2 DEF Published, WorkDirs
  <2> QED BY <1>1, <1>5, <2>3 DEF WriteMeta, GoTo, Fail
<1>6. CASE MakeDir(w)
  <2>1. EmptyDir(name[w], TRUE).work
    BY DEF EmptyDir
  <2>2. Published' = Published
    BY <1>6, <2>1 DEF MakeDir, Published
  <2> QED BY <1>1, <1>6, <2>2 DEF MakeDir, GoTo, Fail
<1>7. CASE Rename(w)
  <2>1. CASE Fail(w, "internal") /\ UNCHANGED dirs
    BY <1>1, <2>1 DEF Fail, Published
  <2>2. CASE \E d \in WorkDirs(name[w]) :
               /\ dirs' = (dirs \ {d}) \cup {[d EXCEPT !.work = FALSE]}
               /\ GoTo(w, "done")
    <3>1. PICK d \in WorkDirs(name[w]) : dirs' = (dirs \ {d}) \cup {[d EXCEPT !.work = FALSE]}
      BY <2>2
    <3> DEFINE new == [d EXCEPT !.work = FALSE]
    <3>2. pc[w] = "rename" /\ pc'[w] = "done" /\ err'[w] = "none"
      BY <1>1, <1>2, <1>7, <2>2 DEF Rename, GoTo
    <3>3. d.text = req[w] /\ d.meta = req[w]
      BY <3>2 DEF WorkInv, Owns
    <3>4. d.work /\ d \in Dir
      BY <1>1 DEF WorkDirs
    <3>5. ~new.work /\ new.text = d.text /\ new.meta = d.meta
      BY <3>4 DEF Dir
    <3>6. dirs' = (dirs \ {d}) \cup {new}
      BY <3>1
    <3> HIDE DEF new
    <3>7. Published' = Published \cup {new}
      BY <3>4, <3>5, <3>6 DEF Published
    <3> QED BY <3>2, <3>3, <3>5, <3>6, <3>7
  <2> QED BY <1>7, <2>1, <2>2 DEF Rename
<1>8. CASE GetPost(w) \/ GetTime(w) \/ MakeName(w) \/ PrepMeta(w)
  <2>1. Published' = Published
    BY <1>8 DEF GetPost, GetTime, MakeName, PrepMeta, shared, Published
  <2>2. pc'[w] = "done" => err'[w] # "none"
    BY <1>1, <1>8 DEF GetPost, GetTime, MakeName, PrepMeta, GoTo, Fail
  <2> QED BY <2>1, <2>2
<1> QED BY <1>4, <1>5, <1>6, <1>7, <1>8 DEF Step

LEMMA PublishedStep ==
  ASSUME TypeOK, RequestInv, PassedInv, WorkInv, PublishedInv, [Next]_vars
  PROVE  PublishedInv'
<1>1. \A d \in Published : d.text \in 1..requests /\ d.meta = d.text /\ Passed(d.text)
  BY DEF PublishedInv
<1>2. \A r \in 1..requests : Passed(r)' <=> Passed(r)
  BY PassedKept
<1>3. ASSUME NEW w \in Workers, Submit(w) PROVE PublishedInv'
  <2>1. /\ pc[w] = "idle" /\ requests' = requests + 1
        /\ UNCHANGED <<dirs, answered>>
    BY <1>3, SubmitEffect
  <2>2. /\ req'[w] = requests' /\ pc'[w] = IF err'[w] = "none" THEN "get_post" ELSE "done"
        /\ \A v \in Workers \ {w} : pc'[v] = pc[v] /\ req'[v] = req[v] /\ err'[v] = err[v]
    BY <1>3, SubmitWorkers
  <2>3. requests \in Nat
    BY Types
  <2>4. \A r \in 1..requests : r \in 1..requests' /\ r # requests'
    BY <2>1, <2>3
  <2>5. Published' = Published
    BY <2>1 DEF Published
  <2>6. \A d \in Published' : d.text \in 1..requests' /\ d.meta = d.text /\ Passed(d.text)'
    BY <1>1, <1>2, <2>4, <2>5 DEF Passed
  <2>7. ~IsPublished(requests')
    BY <1>1, <2>4 DEF IsPublished
  <2>8. \A v \in Workers : pc'[v] # "idle" =>
          ((\E d \in Published' : d.text = req'[v]) <=> pc'[v] = "done" /\ err'[v] = "none")
    BY <2>2, <2>5, <2>7 DEF PublishedInv, IsPublished
  <2> QED BY <2>1, <2>5, <2>6, <2>8 DEF PublishedInv, IsPublished
<1>4. ASSUME NEW w \in Workers, Step(w), ~Submit(w), ~Answer(w) PROVE PublishedInv'
  <2>1. \A v \in Workers \ {w} : pc'[v] = pc[v] /\ err'[v] = err[v]
    BY <1>4, SavingWorkers
  <2>2. /\ UNCHANGED <<req, requests, forms, arrival, answered>>
        /\ pc[w] \notin {"idle", "done"}
    BY <1>4, SavingEffect
  <2>3. ~IsPublished(req[w])
    BY <2>2 DEF PublishedInv
  <2>4. CASE Published' = Published /\ (pc'[w] = "done" => err'[w] # "none")
    <3>1. \A v \in Workers : pc'[v] # "idle" =>
            ((\E d \in Published' : d.text = req'[v]) <=> pc'[v] = "done" /\ err'[v] = "none")
      BY <2>1, <2>2, <2>3, <2>4 DEF PublishedInv, IsPublished
    <3>2. \A d \in Published' : d.text \in 1..requests' /\ d.meta = d.text /\ Passed(d.text)'
      BY <1>1, <2>2, <2>4 DEF Passed
    <3> QED BY <2>2, <2>4, <3>1, <3>2 DEF PublishedInv, IsPublished
  <2>5. ASSUME pc'[w] = "done", err'[w] = "none", NEW new,
               Published' = Published \cup {new}, new.text = req[w], new.meta = req[w]
        PROVE  PublishedInv'
    <3>1. req[w] \in 1..requests /\ Passed(req[w])
      BY <2>2 DEF RequestInv, PassedInv, Saving
    <3>2. \A d \in Published' : d.text \in 1..requests' /\ d.meta = d.text /\ Passed(d.text)'
      BY <1>1, <2>2, <2>5, <3>1 DEF Passed
    <3>3. \A d, e \in Published' : d.text = e.text => d = e
      BY <2>3, <2>5 DEF PublishedInv, IsPublished
    <3>4. \A v \in Workers \ {w} : pc[v] # "idle" => req[v] # req[w]
      BY <2>2 DEF RequestInv
    <3>5. \A v \in Workers : pc'[v] # "idle" =>
            ((\E d \in Published' : d.text = req'[v]) <=> pc'[v] = "done" /\ err'[v] = "none")
      BY <2>1, <2>2, <2>5, <3>4 DEF PublishedInv, IsPublished
    <3>6. \A a \in answered : a.request # req[w]
      BY <2>2 DEF RequestInv
    <3>7. \A a \in answered' : (\E d \in Published' : d.text = a.request) <=> a.err = "none"
      BY <2>2, <2>5, <3>6 DEF PublishedInv, IsPublished
    <3> QED BY <3>2, <3>3, <3>5, <3>7 DEF PublishedInv, IsPublished
  <2> QED BY <1>4, <2>4, <2>5, PublishedEffect
<1>5. ASSUME NEW w \in Workers, Answer(w) PROVE PublishedInv'
  <2>1. /\ pc[w] = "done" /\ pc'[w] = "idle"
        /\ answered' = answered \cup {[request |-> req[w], err |-> err[w]]}
        /\ \A v \in Workers \ {w} : pc'[v] = pc[v] /\ req'[v] = req[v] /\ err'[v] = err[v]
        /\ UNCHANGED <<dirs, requests, forms, arrival>>
    BY <1>5, AnswerWorkers
  <2>2. Published' = Published
    BY <2>1 DEF Published
  <2>3. IsPublished(req[w]) <=> err[w] = "none"
    BY <2>1 DEF PublishedInv
  <2>4. \A a \in answered' : (\E d \in Published' : d.text = a.request) <=> a.err = "none"
    BY <2>1, <2>2, <2>3 DEF PublishedInv, IsPublished
  <2>5. \A d \in Published' : d.text \in 1..requests' /\ d.meta = d.text /\ Passed(d.text)'
    BY <1>1, <2>1, <2>2 DEF Passed
  <2> QED BY <2>1, <2>2, <2>4, <2>5 DEF PublishedInv, IsPublished
<1>6. CASE Tick \/ UNCHANGED vars
  <2>1. UNCHANGED <<dirs, requests, forms, arrival, answered, pc, req, err>>
    BY <1>6 DEF Tick, vars, shared, local
  <2>2. Published' = Published /\ \A r : Passed(r)' <=> Passed(r)
    BY <2>1 DEF Published, Passed
  <2> QED BY <2>1, <2>2 DEF PublishedInv, IsPublished
<1>7. CASE Crash
  <2>1. UNCHANGED <<dirs, requests, forms, arrival, answered>> /\ \A w \in Workers : pc'[w] = "idle"
    BY <1>7 DEF Crash
  <2>2. Published' = Published /\ \A r : Passed(r)' <=> Passed(r)
    BY <2>1 DEF Published, Passed
  <2> QED BY <2>1, <2>2 DEF PublishedInv, IsPublished
<1> QED BY <1>3, <1>4, <1>5, <1>6, <1>7 DEF Next, Ended, Step

-----------------------------------------------------------------------------
(* The theorems *)

\* The invariant is one of the specification: workers do not share names or
\* requests, a worker knows what is in its work directory, and a request is
\* published just when it will be answered so.
THEOREM Invariance == Spec => []IInv
<1>1. IInv /\ [Next]_vars => IInv'
  BY TypeStep, NameStep, RequestStep, PassedStep, WorkStep, PublishedStep DEF IInv
<1> QED BY <1>1, InitIInv, PTL DEF Spec

\* write_out_comment: a directory that moderators see has both files, of one
\* request.
THEOREM AlwaysComplete == Spec => []PublishedComplete
<1>1. IInv => PublishedComplete
  <2> SUFFICES ASSUME IInv, NEW d \in Published PROVE d.text > 0 /\ d.meta = d.text
    BY DEF PublishedComplete
  <2>1. d.text \in 1..requests /\ d.meta = d.text /\ requests \in Nat
    BY Types DEF IInv, PublishedInv
  <2> QED BY <2>1
<1> QED BY <1>1, Invariance, PTL

\* blahg_comment: what the page says was saved is there, and stays.
THEOREM AlwaysSaved == Spec => []SavedIsPublished
<1>1. IInv => SavedIsPublished
  BY DEF IInv, PublishedInv, IsPublished, SavedIsPublished
<1> QED BY <1>1, Invariance, PTL

\* blahg_comment: what it says failed is not there, and nothing is twice.
THEOREM NeverErrorAndPublished == Spec => []ErrorsNotPublished
<1>1. IInv => ErrorsNotPublished
  BY DEF IInv, PublishedInv, IsPublished, ErrorsNotPublished
<1> QED BY <1>1, Invariance, PTL

\* spam_check and get_strings: whatever the form's date is, what is published
\* was thought about for neither too short nor too long a time, and had the
\* captcha's sum and all the fields.
THEOREM AlwaysChecked == Spec => []PublishedPassedChecks
<1>1. IInv => PublishedPassedChecks
  BY DEF IInv, PublishedInv, Passed, PublishedPassedChecks
<1> QED BY <1>1, Invariance, PTL

\* write_out_comment: no step of anyone changes or removes what is published.
THEOREM AlwaysKept == Spec => PublishedKept
<1>1. IInv /\ [Next]_vars => Published \subseteq Published'
  <2> SUFFICES ASSUME IInv, [Next]_vars PROVE Published \subseteq Published'
    OBVIOUS
  <2>1. ASSUME NEW w \in Workers, Step(w) PROVE Published \subseteq Published'
    <3>1. CASE Submit(w)
      BY <3>1, SubmitEffect DEF IInv, Published
    <3>2. CASE Answer(w)
      BY <3>2, AnswerWorkers DEF IInv, Published
    <3>3. CASE ~Submit(w) /\ ~Answer(w)
      BY <2>1, <3>3, PublishedEffect DEF IInv
    <3> QED BY <3>1, <3>2, <3>3
  <2>2. CASE UNCHANGED dirs
    BY <2>2 DEF Published
  <2> QED BY <2>1, <2>2 DEF Next, Step, Tick, Crash, Ended, vars, shared
<1> QED BY <1>1, Invariance, PTL DEF Spec, PublishedKept
=============================================================================
