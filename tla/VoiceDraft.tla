------------------------------- MODULE VoiceDraft -------------------------------
(***************************************************************************)
(* "Décrire ma facture": a dictation becomes a draft. An engine reads the  *)
(* words and searches the catalogue (the rules, bound today, or a language *)
(* model, dormant); what it claims is read again from the catalogue; the   *)
(* review screen shows the draft with its doubts, which the artisan clears *)
(* by touching the field. Search, second reading and screen are moments of *)
(* their own: the catalogue changes in between. A dictation is a sequence  *)
(* of words, a number among them a quantity. What is spelled out in words, *)
(* notices and the artisan's leaving for the other steps are left out.     *)
(***************************************************************************)
EXTENDS Naturals, Sequences, SequencesExt, FiniteSets

CONSTANTS
  Dictations,    \* what may be said
  VoiceNumbers, VoicePercents, VoiceUnits, \* words that are quantities, rates, units the parser knows
  VoiceRows,     \* the catalogue: name -> [kind, price, fixed]; a customer has no price
  Likeness,      \* [heard, name, score]: what the trigram search finds, score in hundredths
  ModelDrafts,   \* drafts the language model may answer
  MaxEntryEdits  \* bound of the changes of the catalogue

\* A draft as an engine answers it: each list holds items, found or not.
IsDictated(d) ==
  /\ DOMAIN d = {"type", "typeFlag", "rate", "depositFlag", "customer", "lines", "serviceLines"}
  /\ d.type \in {"DEVIS", "FACTURE"}
  /\ \A place \in {"customer", "lines", "serviceLines"} :
       /\ d[place] \in Seq(ToSet(d[place]))
       /\ \A i \in DOMAIN d[place] : DOMAIN d[place][i] = {"name", "price", "flag", "hint"}

\* No entry is the absence of one, and the model's answer is parsed by its schema: one customer,
\* with or without an id. Of the matches of a search there is a best one.
ASSUME VoiceData ==
  /\ MaxEntryEdits \in Nat /\ \A d \in Dictations : d \in Seq(ToSet(d))
  /\ "nobody" \notin DOMAIN VoiceRows
  /\ \A n \in DOMAIN VoiceRows : DOMAIN VoiceRows[n] = {"kind", "price", "fixed"}
  /\ \A d \in ModelDrafts : IsDictated(d) /\ Len(d.customer) = 1
  /\ \A found \in SUBSET Likeness \ {{}} : \E m \in found : \A n \in found : m.score >= n.score

VARIABLES
  spoken,   \* the dictation submitted
  stage,    \* how far the request is; "capture" and "review" are screens
  rawDraft, \* what the engine claims, then what the second reading makes of it
  todo,     \* what the request still has to look up: <<place, position, what>>
  entries,     \* the catalogue
  habitual, \* the company has a default deposit
  awaited,  \* a company profile is on its way to the draft store
  review,   \* the draft on the screen, a flag beside each field
  entryEdits,
  since,    \* history: per row, the prices it had since the second reading began
  engine,   \* history: who answered the draft read again last
  touched   \* history: fields the artisan edited on the screen, or a late profile overwrote

voiceVars == <<spoken, stage, rawDraft, todo, entries, habitual, awaited, review, entryEdits, since, engine, touched>>

Nobody == "nobody"
KindOf == [customer |-> "customer", lines |-> "product", serviceLines |-> "service"]
Lists == {"lines", "serviceLines"}

-----------------------------------------------------------------------------
(* The parser *)

Stops == {",", ".", "et", "avec", "pour"}
IsWord(w) == w \notin VoiceNumbers \cup VoicePercents \cup {",", "."}
Says(d, w) == \E i \in DOMAIN d : d[i] = w

\* The words from position i up to the first that ends them, before position j.
Upto(d, i, j, ends) ==
  LET stop == {k \in i..(j - 1) : d[k] \in ends} IN
  SubSeq(d, i, IF stop = {} THEN j - 1 ELSE (CHOOSE k \in stop : \A l \in stop : k <= l) - 1)

DetectDocumentType(d) ==
  [type |-> IF Says(d, "devis") /\ ~Says(d, "facture") THEN "DEVIS" ELSE "FACTURE",
   flag |-> IF Says(d, "devis") # Says(d, "facture") THEN "" ELSE "no_match"]

\* A rate follows the word "acompte" closely, before any other number.
DetectDeposit(d, default) ==
  LET rated == \E i \in DOMAIN d : /\ d[i] = "acompte"
                                   /\ \E j \in (i + 1)..(i + 3) \cap DOMAIN d :
                                        /\ d[j] \in VoicePercents
                                        /\ \A k \in (i + 1)..(j - 1) : d[k] \notin VoiceNumbers
      usual == \E i \in DOMAIN d : i + 1 \in DOMAIN d /\ d[i] = "acompte" /\ d[i + 1] = "habituel"
      rate == rated \/ (usual /\ default)
  IN [rate |-> rate, flag |-> IF Says(d, "acompte") /\ ~rate THEN "no_match" ELSE ""]

ExtractCustomer(d) ==
  LET after == {i \in DOMAIN d : i + 1 \in DOMAIN d /\ d[i] = "pour" /\ IsWord(d[i + 1])} IN
  IF after = {} THEN <<>>
  ELSE LET i == CHOOSE i \in after : \A k \in after : i <= k
       IN <<d[i + 1]>> \o Upto(d, i + 2, Len(d) + 1, {",", ".", "je", "et"})

\* A number and the word after it, known unit or not, and what is described up to the next one.
Quantities(d) == {i \in DOMAIN d : i + 1 \in DOMAIN d /\ d[i] \in VoiceNumbers /\ IsWord(d[i + 1])}

Description(d, i) ==
  LET next == {k \in Quantities(d) : k > i}
      end == IF next = {} THEN Len(d) + 1 ELSE CHOOSE k \in next : \A l \in next : k <= l
      start == IF i + 2 < end /\ d[i + 2] = "de" THEN i + 3 ELSE i + 2
      rest == Upto(d, start, end, Stops)
  IN IF d[i + 1] \in VoiceUnits THEN rest ELSE <<d[i + 1]>> \o rest

\* Where the phrase of a line starts.
ExtractLineCandidates(d) == {i \in Quantities(d) : Description(d, i) # <<>>}

HasNoExtractableContent(d) ==
  /\ DetectDocumentType(d).flag # ""
  /\ ExtractCustomer(d) = <<>> /\ ExtractLineCandidates(d) = {}

-----------------------------------------------------------------------------
(* The search of the catalogue, and how much of it is believed *)

OfKind(kind, name) == name \in DOMAIN entries /\ entries[name].kind = kind

SearchFuzzy(kind, heard) ==
  {m \in Likeness : m.heard = heard /\ OfKind(kind, m.name) /\ m.score > 20}

NoHit == [name |-> Nobody, score |-> 0]

PickBestMatch(matches) ==
  IF matches = {} THEN [picked |-> NoHit, flag |-> "no_match", hint |-> Nobody]
  ELSE LET top == CHOOSE m \in matches : \A n \in matches : m.score >= n.score IN
       IF \E n \in matches \ {top} : top.score - n.score < 10
       THEN [picked |-> NoHit, flag |-> "ambiguous_match", hint |-> top.name]
       ELSE IF top.score >= 50 THEN [picked |-> top, flag |-> "", hint |-> Nobody]
       ELSE [picked |-> NoHit, flag |-> "low_confidence_match", hint |-> top.name]

Item(name, price, flag, hint) == [name |-> name, price |-> price, flag |-> flag, hint |-> hint]

ResolveCustomer(d) ==
  LET heard == ExtractCustomer(d)
      best == PickBestMatch(SearchFuzzy("customer", heard))
  IN IF heard = <<>> THEN Item(Nobody, 0, "no_match", Nobody)
     ELSE Item(best.picked.name, 0, best.flag, best.hint)

\* One phrase becomes a product line, a service line, or a line to complete.
ResolveOneLine(heard) ==
  LET product == PickBestMatch(SearchFuzzy("product", heard))
      service == PickBestMatch(SearchFuzzy("service", heard))
      hint == IF product.hint # Nobody THEN product.hint ELSE service.hint
  IN IF product.picked # NoHit /\ product.picked.score >= service.picked.score
     THEN [list |-> "lines", item |-> Item(product.picked.name, entries[product.picked.name].price, "", Nobody)]
     ELSE IF service.picked # NoHit
     THEN LET row == entries[service.picked.name] IN
          [list |-> "serviceLines",
           item |-> Item(service.picked.name, IF row.fixed THEN row.price ELSE 0,
                         IF row.fixed THEN "" ELSE "no_match", Nobody)]
     ELSE [list |-> "lines", item |-> Item(Nobody, 0, product.flag, hint)]

-----------------------------------------------------------------------------
(* The request *)

NoDraft == [type |-> "FACTURE", typeFlag |-> "", rate |-> FALSE, depositFlag |-> "",
            customer |-> <<>>, lines |-> <<>>, serviceLines |-> <<>>]
NoReview == [draft |-> NoDraft, flags |-> [l \in Lists |-> <<>>], deposit |-> "none"]

VoiceInit ==
  /\ spoken = <<>> /\ stage = "capture" /\ rawDraft = NoDraft /\ todo = {}
  /\ entries = VoiceRows /\ habitual \in BOOLEAN /\ awaited = FALSE
  /\ review = NoReview /\ entryEdits = 0
  /\ since = [n \in DOMAIN VoiceRows |-> {}] /\ engine = "rules" /\ touched = {}

\* The mode choice resets the draft, which asks for the company's habitual deposit.
SubmitDictation(d) ==
  /\ stage = "capture" /\ stage' = "read" /\ spoken' = d
  /\ awaited' \in BOOLEAN /\ review' = NoReview /\ touched' = {}
  /\ UNCHANGED <<rawDraft, todo, entries, habitual, entryEdits, since, engine>>

\* Rejected, failed, refused by the plan or timed out: back to the words.
BackToCapture ==
  /\ stage' = "capture" /\ rawDraft' = NoDraft /\ todo' = {}
  /\ UNCHANGED <<spoken, entries, habitual, awaited, review, entryEdits, since, engine, touched>>
Rejected == stage = "read" /\ HasNoExtractableContent(spoken) /\ BackToCapture
RequestFails == stage \in {"read", "search", "again"} /\ BackToCapture

FindCompany ==
  /\ stage = "read" /\ ~HasNoExtractableContent(spoken) /\ stage' = "search"
  /\ LET deposit == DetectDeposit(spoken, habitual)
         kind == DetectDocumentType(spoken)
     IN rawDraft' = [NoDraft EXCEPT !.type = kind.type, !.typeFlag = kind.flag,
                                    !.rate = deposit.rate, !.depositFlag = deposit.flag]
  /\ todo' = {<<"customer", 1, "search">>}
               \cup {<<"lines", i, "search">> : i \in ExtractLineCandidates(spoken)}
  /\ UNCHANGED <<spoken, entries, habitual, awaited, review, entryEdits, since, engine, touched>>

\* The customer and the lines are searched side by side, the lines one after the other.
Search(t) ==
  /\ stage = "search" /\ t \in todo /\ todo' = todo \ {t}
  /\ t[1] = "lines" => \A u \in todo : u[1] = "lines" => t[2] <= u[2]
  /\ LET hit == ResolveOneLine(Description(spoken, t[2]))
     IN rawDraft' = IF t[1] = "customer" THEN [rawDraft EXCEPT !.customer = <<ResolveCustomer(spoken)>>]
                    ELSE [rawDraft EXCEPT ![hit.list] = Append(@, hit.item)]
  /\ UNCHANGED <<spoken, stage, entries, habitual, awaited, review, entryEdits, since, engine, touched>>

ToReadAgain(d) == {<<p, i, "entry">> : p \in {"customer"}, i \in {1}}
                    \cup UNION {{<<l, i, "entry">> : i \in DOMAIN d[l]} : l \in Lists}

ValidateDraft(d, by) ==
  /\ engine' = by /\ stage' = "again" /\ rawDraft' = d /\ todo' = ToReadAgain(d)
  /\ since' = [n \in DOMAIN since |-> IF n \in DOMAIN entries THEN {entries[n].price} ELSE {}]
  /\ UNCHANGED <<spoken, entries, habitual, awaited, review, entryEdits, touched>>
RulesAnswer == stage = "search" /\ todo = {} /\ ValidateDraft(rawDraft, "rules")
\* The language model, dormant: whatever it answers in the right form is a draft.
ModelAnswers == stage = "read" /\ \E d \in ModelDrafts : ValidateDraft(d, "model")

(* Mutant: an entry that is found keeps the price the engine gave. *)
PriceClaimed(item) == item.price
PriceFound(item) == entries[item.name].price
\* What was found keeps its id and takes the price and terms of the catalogue; what was not
\* is in doubt. A line with neither id nor doubt is given one; a customer is not.
FindByIdOrNull(place, i) ==
  /\ stage = "again" /\ <<place, i, "entry">> \in todo
  /\ LET item == rawDraft[place][i]
         found == OfKind(KindOf[place], item.name)
         vouched == found /\ (place = "serviceLines" => entries[item.name].fixed)
         kept == vouched \/ (item.name = Nobody /\ (item.flag # "" \/ place = "customer"))
         flag == IF kept THEN item.flag ELSE "no_match"
         hint == IF vouched \/ item.name = Nobody THEN item.hint ELSE Nobody
     IN /\ rawDraft' = [rawDraft EXCEPT ![place][i] =
              Item(IF found THEN item.name ELSE Nobody,
                   IF vouched THEN PriceFound(item) ELSE item.price, flag, hint)]
        /\ todo' = (todo \ {<<place, i, "entry">>})
                     \cup (IF hint = Nobody THEN {} ELSE {<<place, i, "hint">>})
  /\ UNCHANGED <<spoken, stage, entries, habitual, awaited, review, entryEdits, since, engine, touched>>

RevalidateSuggestion(place, i) ==
  /\ stage = "again" /\ <<place, i, "hint">> \in todo /\ todo' = todo \ {<<place, i, "hint">>}
  /\ rawDraft' = IF OfKind(KindOf[place], rawDraft[place][i].hint) THEN rawDraft
                  ELSE [rawDraft EXCEPT ![place][i].hint = Nobody]
  /\ UNCHANGED <<spoken, stage, entries, habitual, awaited, review, entryEdits, since, engine, touched>>

Habit == IF habitual THEN "habitual" ELSE "none"

\* loadFromVoiceDraft and activate: the values in one store, the doubts in another, by position.
LoadFromVoiceDraft ==
  /\ stage = "again" /\ todo = {} /\ stage' = "review"
  /\ LET applied == rawDraft.type = "FACTURE" /\ rawDraft.rate
         named(l) == [i \in DOMAIN rawDraft[l] |-> [id |-> <<l, i>>, name |-> rawDraft[l][i].name,
                                                      price |-> rawDraft[l][i].price]]
     IN /\ review' = [draft |-> [rawDraft EXCEPT !.lines = named("lines"), !.serviceLines = named("serviceLines"),
                                   !.depositFlag = IF rawDraft.rate /\ rawDraft.type = "DEVIS"
                                                   THEN "document_type_conflict" ELSE @],
                       flags |-> [l \in Lists |-> [i \in DOMAIN rawDraft[l] |->
                                    [flag |-> rawDraft[l][i].flag, hint |-> rawDraft[l][i].hint]]],
                       deposit |-> IF applied THEN "dictated" ELSE Habit]
        /\ awaited' = (awaited \/ ~applied)
  /\ rawDraft' = NoDraft
  /\ UNCHANGED <<spoken, todo, entries, habitual, entryEdits, since, engine, touched>>

\* The profile asked for by a reset arrives, and applies the habitual deposit whatever the draft has become.
ProfileArrives ==
  /\ awaited /\ awaited' = FALSE
  /\ IF stage = "review" THEN /\ review' = [review EXCEPT !.deposit = Habit]
                               /\ touched' = touched \cup {<<"deposit", 0>>}
     ELSE UNCHANGED <<review, touched>>
  /\ UNCHANGED <<spoken, stage, rawDraft, todo, entries, habitual, entryEdits, since, engine>>

-----------------------------------------------------------------------------
(* The review screen *)

OnScreen == UNCHANGED <<spoken, stage, rawDraft, todo, entries, habitual, awaited, entryEdits, since, engine>>
Touch(field) == touched' = touched \cup {field}
Cleared == [flag |-> "", hint |-> Nobody]

ReviewDocumentType(type) ==
  /\ stage = "review"
  /\ review' = [review EXCEPT !.draft.type = type, !.draft.typeFlag = ""]
  /\ UNCHANGED touched /\ OnScreen

\* Typing keeps the id; the suggestion is looked up in the customers the draft store knows.
UpdateCustomer(name) ==
  /\ stage = "review"
  /\ LET shown == review.draft.customer[1]
     IN name = shown.name \/ (name = shown.hint /\ name # Nobody)
  /\ review' = [review EXCEPT !.draft.customer[1] = Item(name, @.price, "", Nobody)]
  /\ Touch(<<"customer", 0>>) /\ OnScreen

\* A typed field, or the suggestion applied; the line is the artisan's own from then on, and
\* a price of 0 stands for whatever it has become.
UpdateLine(l, i, name) ==
  /\ stage = "review" /\ i \in DOMAIN review.draft[l]
  /\ name = review.draft[l][i].name \/ (name = review.flags[l][i].hint /\ name # Nobody)
  /\ review' = [review EXCEPT !.draft[l][i].name = name, !.draft[l][i].price = 0,
                              !.flags[l][i] = Cleared]
  /\ Touch(review.draft[l][i].id) /\ OnScreen

\* Both stores, one after the other, by the position on the screen.
RemoveLine(l, i) ==
  /\ stage = "review" /\ i \in DOMAIN review.draft[l]
  /\ review' = [review EXCEPT !.draft[l] = RemoveAt(@, i), !.flags[l] = RemoveAt(@, i)]
  /\ Touch(review.draft[l][i].id) /\ OnScreen

\* The deposit field is shown on a facture only.
OnDepositChange ==
  /\ stage = "review" /\ review.draft.type = "FACTURE"
  /\ review' = [review EXCEPT !.deposit = "typed", !.draft.depositFlag = ""]
  /\ Touch(<<"deposit", 0>>) /\ OnScreen

StartAgain ==
  /\ stage = "review" /\ stage' = "capture" /\ review' = NoReview /\ touched' = {}
  /\ UNCHANGED <<spoken, rawDraft, todo, entries, habitual, awaited, entryEdits, since, engine>>

\* Another tab changes the catalogue or the company.
ChangeRow(n) ==
  /\ entryEdits < MaxEntryEdits /\ entryEdits' = entryEdits + 1
  /\ n \in DOMAIN entries
  /\ \/ entries' = [m \in DOMAIN entries \ {n} |-> entries[m]]
     \/ entries[n].kind # "customer" /\ entries' = [entries EXCEPT ![n].price = @ + 1]
     \/ entries[n].kind = "service" /\ entries' = [entries EXCEPT ![n].fixed = ~@]
  /\ since' = [m \in DOMAIN since |-> since[m] \cup (IF m \in DOMAIN entries' THEN {entries'[m].price} ELSE {})]
  /\ UNCHANGED <<spoken, stage, rawDraft, todo, habitual, awaited, review, engine, touched>>
ChangeHabit ==
  /\ entryEdits < MaxEntryEdits /\ entryEdits' = entryEdits + 1 /\ habitual' = ~habitual
  /\ UNCHANGED <<spoken, stage, rawDraft, todo, entries, awaited, review, since, engine, touched>>

VoiceNext ==
  \/ \E d \in Dictations : SubmitDictation(d)
  \/ Rejected \/ RequestFails \/ FindCompany \/ RulesAnswer \/ ModelAnswers
  \/ \E t \in todo : Search(t) \/ FindByIdOrNull(t[1], t[2]) \/ RevalidateSuggestion(t[1], t[2])
  \/ LoadFromVoiceDraft \/ ProfileArrives \/ StartAgain
  \/ \E type \in {"DEVIS", "FACTURE"} : ReviewDocumentType(type)
  \/ \E n \in DOMAIN VoiceRows \cup {Nobody} :
       \/ UpdateCustomer(n) \/ ChangeRow(n)
       \/ \E l \in Lists : \E i \in 1..Len(spoken) : UpdateLine(l, i, n)
  \/ \E l \in Lists : \E i \in 1..Len(spoken) : RemoveLine(l, i)
  \/ OnDepositChange \/ ChangeHabit

VoiceSpec == VoiceInit /\ [][VoiceNext]_voiceVars

-----------------------------------------------------------------------------
(* Properties *)

VoiceTypeOK ==
  /\ stage \in {"capture", "read", "search", "again", "review"}
  /\ DOMAIN entries \subseteq DOMAIN VoiceRows /\ habitual \in BOOLEAN /\ awaited \in BOOLEAN
  /\ todo \subseteq (DOMAIN KindOf) \X Nat \X {"search", "entry", "hint"}
  /\ review.deposit \in {"dictated", "habitual", "none", "typed"} /\ entryEdits \in 0..MaxEntryEdits

NotTouched(field) == field \notin touched

\* "Never silently wrong" (docs/1.4/1.4-1): what the review screen shows without a doubt beside it, and
\* the artisan has not touched, is an entry of the catalogue at a price it had since the second reading
\* began, whichever engine answered and whatever changed meanwhile; a dictated rate is applied or in
\* doubt. The doubts are kept apart from the lines, by position: removing lines moves no doubt to another
\* line, and none is lost with one that stays. A customer without a doubt is one that was the company's
\* since that reading began, except that a customer the language model answers with neither id nor doubt
\* stays so: resolveCustomer, unlike the lines, flags no such answer. The rules never answer one.
NeverSilentlyWrong ==
  stage = "review" =>
    /\ \A l \in Lists :
         /\ Len(review.flags[l]) = Len(review.draft[l])
         /\ \A i \in DOMAIN review.draft[l] :
              LET line == review.draft[l][i]
                  doubt == review.flags[l][i].flag # ""
              IN IF NotTouched(line.id) THEN doubt \/ (line.name # Nobody /\ line.price \in since[line.name])
                 ELSE ~doubt
    /\ LET customer == review.draft.customer[1]
           doubt == customer.flag # ""
           known == VoiceRows[customer.name].kind = "customer" /\ since[customer.name] # {}
       IN IF NotTouched(<<"customer", 0>>)
          THEN doubt \/ (IF customer.name = Nobody THEN engine = "model" ELSE known)
          ELSE ~doubt
    /\ review.draft.rate /\ NotTouched(<<"deposit", 0>>)
         => review.deposit = "dictated" \/ review.draft.depositFlag # ""
=============================================================================
