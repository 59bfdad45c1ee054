---------------------------- MODULE ReadingsProps ----------------------------
(***************************************************************************)
(* What holds of the values and of what is read of them.                   *)
(***************************************************************************)
EXTENDS Readings

\* The number of a value that has one, in halves.
HasNumber(v) ==
  \/ v.go \in SignedTypes \cup UnsignedTypes
  \/ v.go \in FloatTypes /\ Finite(v.n)
  \/ v.go = "string" /\ (v.as = "int" \/ (v.as = "frac" /\ Finite(v.n)))
Number(v) == IF v.go \in FloatTypes \/ v.as = "frac" THEN v.n ELSE 2 * v.n

\* What of a value can be said in a type; of a text with a fraction no integer can.
Representable(v, type) ==
  CASE type = "string" -> TRUE
    [] type \in SignedTypes -> HasNumber(v) /\ v.as # "frac" /\ Trunc(Number(v)) \in Signed(Bits(type))
    [] type \in UnsignedTypes ->
         HasNumber(v) /\ v.as # "frac" /\ Number(v) >= 0 /\ Trunc(Number(v)) \in Unsigned(Bits(type))
    [] type = "float32" -> HasNumber(v) /\ Rounded(Number(v), Exact64) \in -MaxFloat32..MaxFloat32
    [] type = "float64" -> HasNumber(v) /\ Finite(Rounded(Number(v), Exact64))
    [] type = "bool" -> v.go = "bool" \/ v.as = "bool"
    [] OTHER -> FALSE

\* A reading says the number of the stored value, cut to an integer if it is one.  A
\* text beyond int64 wraps; a float beyond it is wrong in a type of 64 bits at most.
SaysTheNumber(v, reading) ==
  LET x == Number(v)
      Near(exact) == /\ x \in -exact..exact => reading.n = x
                     /\ reading.n - x \in -Ulp(x, exact)..Ulp(x, exact)
  IN  CASE reading.go \in SignedTypes \cup UnsignedTypes ->
             IF reading.go \in SignedTypes /\ v.go = "string" /\ Trunc(x) >= Half[64]
             THEN reading.n = Trunc(x) - 2 * Half[64]
             ELSE \/ reading.n = Trunc(x)
                  \/ /\ v.go \in FloatTypes
                     /\ \/ reading.go = "int64" /\ Trunc(x) \notin Signed(64)
                        \/ reading.go = "uint64" /\ Trunc(x) \notin Unsigned(64)
        [] reading.go = "float32" -> Near(Exact32)
        [] reading.go = "float64" -> Near(Exact64)
        [] reading.go = "string" -> Number(reading) = x
        [] reading.go = "bool" -> reading.n = IF x = 0 THEN 0 ELSE 1
        [] OTHER -> TRUE

Answered == {i \in DOMAIN request.answer : request.reqs[i].name # "topologyDiagram"}

Missing == request.state = "reading" /\ Asked.name \notin DOMAIN request.values

-----------------------------------------------------------------------------
\* A reading is of the type that its resource declares and within its range, and no
\* conversion on the way from the stored value changes the number.
ReadFaithful ==
  \A i \in Answered :
    LET v == request.answer[i].from
        reading == request.answer[i].reading
    IN  /\ reading.go = request.reqs[i].type
        /\ reading.go \in SignedTypes => reading.n \in Signed(Bits(reading.go))
        /\ reading.go \in UnsignedTypes => reading.n \in Unsigned(Bits(reading.go))
        /\ HasNumber(v) => SaysTheNumber(v, reading)

\* A request fails because the device or the value is gone, which takes a callback, or
\* because the value cannot be said in the declared type: never for a number in range.
RefusedForAReason ==
  request.state = "failed" =>
    \/ calls > 0 /\ (request.values = <<>> \/ Asked.name \notin DOMAIN request.values)
    \/ \E c \in Copied(Asked.name) : ~Representable(c.value, Asked.type)

\* The values of an answer are of one moment: none is from a later frame than its time
\* stamp, and of two that a report brings, the second is not from a later frame than
\* the first.  The topology is left out: it is of all devices, and read apart.
AnswersOfOneMoment ==
  \A i, j \in DOMAIN request.answer :
    LET name(k) == request.reqs[k].name
        at(k) == request.answer[k].at
        Before(r, s) == \A report \in Reports : \A m \in DOMAIN report :
                          report[m].name = s => \E l \in 1..m - 1 : report[l].name = r
        Brought(r) == \E report \in Reports : \E m \in DOMAIN report : report[m].name = r
    IN  /\ (name(i) = "lastDataTimestamp" /\ name(j) # "topologyDiagram" /\ at(i) > 0) => at(j) <= at(i)
        /\ (Brought(name(j)) /\ Before(name(i), name(j)) /\ at(i) > 0 /\ at(j) > 0
              /\ "topologyDiagram" \notin {name(i), name(j)}) => at(j) <= at(i)

\* A device that is not removed keeps every value of its profile, whatever frames and
\* updates do meanwhile.
NothingMissing ==
  \A d \in Devices :
    (profile[d] # <<>> /\ ~(cb.dev = d /\ cb.op = "init")) =>
      d \in DOMAIN ValuesMap /\ {r.name : r \in Range(profile[d])} \subseteq DOMAIN ValuesMap[d]

-----------------------------------------------------------------------------
(* What comments of status_check.go say, which the code does not do.       *)

\* status_check.go:38 "judge whether it timed out: now - lastTs > 2 * period seconds" and
\* :44 "write state back": when the check is done with a device that has sent frames and
\* has a period, its state says whether it has been silent for more than two periods.  The
\* default of a period is a text, which the check passes over.
StateJudged ==
  [][\A d \in Devices :
       (check.dev = d /\ check'.dev # d /\ check.stamp.go = "int64" /\ d \in DOMAIN ValuesMap) =>
         LET silent == check.now - check.stamp.n > 2 * check.period.n
         IN  ValuesMap'[d]["state"] = V("uint8", IF silent THEN 1 ELSE 0)]_vars
=============================================================================
