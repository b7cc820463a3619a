-------------------------- MODULE ClassifierProofs --------------------------
(***************************************************************************)
(* The classifier over every command and every registry: its types, that   *)
(* the heredoc rule hides no line that is run and leaves out no more than  *)
(* a text, that mutations are gated and no word dilutes a trigger, and     *)
(* what a label and the directory of a state stand for.                    *)
(***************************************************************************)
EXTENDS Classifier, SequenceFacts

LEMMA CallLines ==
    ASSUME NEW k \in Calls
    PROVE  k.lines \in Seq(Seq(Words)) /\ k.lines # << >>
<1>1. k.lines \in Commands
    BY DEF Calls
<1> QED
    BY <1>1, ClassifierAssumption

LEMMA TextWords ==
    ASSUME NEW lines \in Seq(Seq(Words)), lines # << >>
    PROVE  /\ Text(lines) \in Seq(Words)
           /\ \A i \in DOMAIN lines : ToSet(lines[i]) \subseteq ToSet(Text(lines))
    BY FlattenElements DEF Text

\* The last token is made of words of the text.
LEMMA LastTokenWords ==
    ASSUME NEW text \in Seq(Words), ~(Len(text) < 2), ~Unparseable(text)
    PROVE  LastToken(text) \in Seq(Words) /\ ToSet(LastToken(text)) \subseteq ToSet(text)
<1> DEFINE n == Len(text)
<1>1. n \in Nat /\ n > 1 /\ n \in DOMAIN text /\ text[n] \in Words
    OBVIOUS
<1>2. CASE "quote" \notin Traits[text[n]]
    <2>1. LastToken(text) = <<text[n]>>
        BY <1>2 DEF LastToken, Last
    <2> QED
        BY <1>1, <2>1 DEF ToSet
<1>3. CASE "quote" \in Traits[text[n]]
    <2> DEFINE I == {i \in 1..Len(Front(text)) : "quote" \in Traits[Front(text)[i]]}
    <2> DEFINE Q == {i \in DOMAIN text : "quote" \in Traits[text[i]]}
    <2>1. Len(Front(text)) = n - 1 /\ \A i \in 1..(n - 1) : Front(text)[i] = text[i]
        BY <1>1 DEF Front
    <2>2. I # {}
        <3>1. SUFFICES ASSUME I = {} PROVE FALSE
            OBVIOUS
        <3>2. \A i \in DOMAIN text : i = n \/ i \in 1..(n - 1)
            BY <1>1
        <3>3. Q = {n}
            BY <1>1, <1>3, <2>1, <3>1, <3>2
        <3>4. Cardinality(Q) = 1
            BY <3>3, FS_Singleton
        <3> QED
            BY <3>4 DEF Unparseable
    <2>3. Max(I) \in 1..(n - 1)
        <3>1. n - 1 \in Nat /\ I \in SUBSET (0..(n - 1)) /\ I \subseteq 1..(n - 1)
            BY <1>1, <2>1
        <3> HIDE DEF I
        <3>2. Max(I) \in I
            BY <2>2, <3>1, MaxIsIn
        <3> QED
            BY <3>1, <3>2
    <2>4. SelectLastInSeq(Front(text), LAMBDA w : "quote" \in Traits[w]) = Max(I)
        BY <2>2 DEF SelectLastInSeq
    <2>5. LastToken(text) = SubSeq(text, Max(I), n)
        BY <1>3, <2>4 DEF LastToken, Last
    <2> DEFINE j == Max(I)
    <2>6. j \in 1..(n - 1) /\ LastToken(text) = SubSeq(text, j, n)
        BY <2>3, <2>5
    <2> HIDE DEF j
    <2>7. /\ SubSeq(text, j, n) \in Seq(Words)
          /\ \A i \in DOMAIN SubSeq(text, j, n) :
                SubSeq(text, j, n)[i] = text[j + i - 1] /\ j + i - 1 \in DOMAIN text
        BY <1>1, <2>6
    <2> QED
        BY <2>6, <2>7 DEF ToSet
<1> QED
    BY <1>2, <1>3

\* So is the target of any call.
LEMMA TargetWords ==
    ASSUME NEW k, k.lines \in Seq(Seq(Words)), k.lines # << >>
    PROVE  Target(k) \in Seq(Words) /\ ToSet(Target(k)) \subseteq ToSet(Text(k.lines))
    BY TextWords, LastTokenWords DEF Target

----------------------------------------------------------------------------
\* The lines of a recognised heredoc: the header, the text, its delimiter and
\* perhaps an empty line.
LEMMA ChompLines ==
    ASSUME NEW S, NEW t \in Seq(Seq(S)), Chomp(t) # << >>
    PROVE  /\ Chomp(t) \in Seq(Seq(S))
           /\ \A j \in 1..Len(Chomp(t)) : Chomp(t)[j] = t[j] /\ j \in 1..Len(t)
           /\ \A j \in 1..Len(t) : j > Len(Chomp(t)) => t[j] = << >>
<1>1. CASE t # << >> /\ Last(t) = << >>
    <2>1. Chomp(t) = SubSeq(t, 1, Len(t) - 1)
        BY <1>1 DEF Chomp, Front
    <2>2. Len(t) \in Nat /\ Len(t) > 0 /\ t[Len(t)] = << >>
        BY <1>1 DEF Last
    <2>3. Len(Chomp(t)) = Len(t) - 1 /\ Chomp(t) \in Seq(Seq(S))
        BY <2>1, <2>2
    <2>4. \A j \in 1..(Len(t) - 1) : Chomp(t)[j] = t[j] /\ j \in 1..Len(t)
        BY <2>1, <2>2
    <2>5. \A j \in 1..Len(t) : j > Len(t) - 1 => j = Len(t)
        BY <2>2
    <2> QED
        BY <2>2, <2>3, <2>4, <2>5
<1>2. CASE ~(t # << >> /\ Last(t) = << >>)
    <2>1. Chomp(t) = t
        BY <1>2 DEF Chomp
    <2> QED
        BY <2>1
<1> QED
    BY <1>1, <1>2

\* A recognised heredoc: m lines of text and delimiter behind the header, and
\* nothing but empty lines behind those.
Heredoc(lines, m) ==
    LET end == <<Terminator[lines[1][4]]>> IN
    /\ m \in Nat \ {0} /\ m + 1 \in DOMAIN lines /\ lines[m + 1] = end
    /\ \A j \in 2..m : j \in DOMAIN lines /\ lines[j] # end
    /\ \A j \in DOMAIN lines : j > m + 1 => lines[j] = << >>
    /\ heredoc_authoring_scan(lines) = lines[1] \o end
    /\ ~Has(Text(lines), "guard") /\ authoring_header(lines[1])

LEMMA HeredocLines ==
    ASSUME NEW lines \in Seq(Seq(Words)), lines # << >>,
           heredoc_authoring_scan(lines) # NoScan
    PROVE  \E m : Heredoc(lines, m)
<1> DEFINE header == lines[1]
<1> DEFINE t == Tail(lines)
<1> DEFINE rest == Chomp(t)
<1> DEFINE m == Len(rest)
<1> DEFINE end == <<Terminator[header[4]]>>
<1>1. /\ ~Has(Text(lines), "guard") /\ authoring_header(header) /\ rest # << >>
      /\ Last(rest) = end /\ ~Contains(Front(rest), Last(rest))
      /\ heredoc_authoring_scan(lines) = header \o Last(rest)
    BY DEF heredoc_authoring_scan
<1>2. /\ t \in Seq(Seq(Words)) /\ Len(t) = Len(lines) - 1
      /\ \A j \in 1..(Len(lines) - 1) : t[j] = lines[j + 1]
      /\ Len(lines) \in Nat /\ DOMAIN lines = 1..Len(lines)
    OBVIOUS
<1>3. /\ rest \in Seq(Seq(Words))
      /\ \A j \in 1..m : rest[j] = t[j] /\ j \in 1..Len(t)
      /\ \A j \in 1..Len(t) : j > m => t[j] = << >>
    BY <1>1, <1>2, ChompLines
<1>4. m \in Nat /\ m > 0 /\ rest[m] = end /\ \A j \in 1..(m - 1) : rest[j] # end
    <2>1. m \in Nat /\ m > 0 /\ rest[m] = end
        BY <1>1, <1>3 DEF Last
    <2>2. Len(Front(rest)) = m - 1 /\ \A j \in 1..(m - 1) : Front(rest)[j] = rest[j]
        BY <1>1, <1>3, FrontIs
    <2> QED
        BY <1>1, <2>1, <2>2 DEF Contains
<1> HIDE DEF rest, m, t
<1>5. m + 1 \in DOMAIN lines /\ lines[m + 1] = end
    <2>1. m \in 1..m
        BY <1>4
    <2>2. rest[m] = t[m] /\ m \in 1..Len(t)
        BY <1>3, <2>1
    <2>3. m \in 1..(Len(lines) - 1) /\ m + 1 \in 1..Len(lines)
        BY <1>2, <2>2
    <2> QED
        BY <1>2, <1>4, <2>2, <2>3
<1>6. ASSUME NEW j \in 2..m
      PROVE  j \in DOMAIN lines /\ lines[j] # end
    <2>1. j - 1 \in 1..(m - 1) /\ j - 1 \in 1..m /\ (j - 1) + 1 = j
        BY <1>4
    <2>2. rest[j - 1] = t[j - 1] /\ j - 1 \in 1..Len(t)
        BY <1>3, <2>1
    <2>3. t[j - 1] = lines[j] /\ j \in 1..Len(lines)
        BY <1>2, <2>1, <2>2
    <2> QED
        BY <1>2, <1>4, <2>1, <2>2, <2>3
<1>7. ASSUME NEW j \in DOMAIN lines, j > m + 1
      PROVE  lines[j] = << >>
    <2>0. j \in 1..Len(lines) /\ Len(lines) \in Nat /\ m \in Nat /\ m > 0
        BY <1>2, <1>4
    <2>1. j - 1 \in 1..(Len(lines) - 1) /\ j - 1 > m /\ (j - 1) + 1 = j
        BY ONLY <1>7, <2>0
    <2>2. t[j - 1] = lines[j]
        BY <1>2, <2>1
    <2>3. t[j - 1] = << >>
        BY <1>2, <1>3, <2>1
    <2> QED
        BY <2>2, <2>3
<1>8. Heredoc(lines, m)
    <2>1. heredoc_authoring_scan(lines) = header \o end /\ m \in Nat \ {0}
        BY <1>1, <1>4
    <2> QED
        BY <1>1, <1>5, <1>6, <1>7, <2>1 DEF Heredoc
<1> QED
    BY <1>8

LEMMA ScanWords ==
    ASSUME NEW lines \in Seq(Seq(Words)), lines # << >>,
           heredoc_authoring_scan(lines) # NoScan
    PROVE  /\ lines[1] \in Seq(Words) /\ <<Terminator[lines[1][4]]>> \in Seq(Words)
           /\ heredoc_authoring_scan(lines) = lines[1] \o <<Terminator[lines[1][4]]>>
           /\ heredoc_authoring_scan(lines) \in Seq(Words)
<1> DEFINE end == <<Terminator[lines[1][4]]>>
<1>1. PICK m : Heredoc(lines, m)
    BY HeredocLines
<1>2. m + 1 \in DOMAIN lines /\ lines[m + 1] = end
      /\ heredoc_authoring_scan(lines) = lines[1] \o end
    BY <1>1 DEF Heredoc
<1> HIDE DEF end
<1>3. lines[m + 1] \in Seq(Words) /\ lines[1] \in Seq(Words)
    BY <1>2
<1> QED
    BY <1>2, <1>3 DEF end

\* Its text begins with the header and ends with the delimiter, so when its quotes
\* are balanced the delimiter is its target.
LEMMA HeredocText ==
    ASSUME NEW lines \in Seq(Seq(Words)), lines # << >>,
           heredoc_authoring_scan(lines) # NoScan
    PROVE  LET text == Text(lines)
               d == Terminator[lines[1][4]]
           IN  /\ lines[1] \in Seq(Words) /\ authoring_header(lines[1]) /\ Len(lines[1]) = 4
               /\ d \in Words /\ "quote" \notin Traits[d] /\ "address" \notin Traits[d]
               /\ heredoc_authoring_scan(lines) = lines[1] \o <<d>>
               /\ text \in Seq(Words) /\ Len(text) > 4 /\ Last(text) = d
               /\ \A x \in 1..4 : text[x] = lines[1][x]
               /\ ~Has(text, "guard") /\ ~Has(lines[1], "guard") /\ "guard" \notin Traits[d]
               /\ LastToken(text) = <<d>>
<1> DEFINE text == Text(lines)
<1> DEFINE d == Terminator[lines[1][4]]
<1>1. PICK m : Heredoc(lines, m)
    BY HeredocLines
<1>2. /\ m \in Nat \ {0} /\ m + 1 \in DOMAIN lines /\ lines[m + 1] = <<d>>
      /\ \A j \in DOMAIN lines : j > m + 1 => lines[j] = << >>
      /\ ~Has(text, "guard") /\ authoring_header(lines[1])
    BY <1>1 DEF Heredoc
<1>3. Len(lines[1]) = 4 /\ lines[1][4] \in DOMAIN Terminator
    BY <1>2 DEF authoring_header
<1>4. d \in Words /\ "quote" \notin Traits[d] /\ "address" \notin Traits[d]
    BY <1>3, ClassifierAssumption
<1>5. lines[1] \in Seq(Words) /\ heredoc_authoring_scan(lines) = lines[1] \o <<d>>
    BY ScanWords
<1> HIDE DEF d
<1>6. m + 1 \in 2..Len(lines)
    BY <1>2
<1>7. /\ text \in Seq(Words) /\ Len(text) > 4 /\ Last(text) = d
      /\ \A x \in 1..4 : text[x] = lines[1][x]
    <2>0. PICK k : k = m + 1
        OBVIOUS
    <2>1. /\ lines \in Seq(Seq(Words)) /\ k \in 2..Len(lines) /\ d \in Words
          /\ lines[k] = <<d>> /\ \A j \in DOMAIN lines : j > k => lines[j] = << >>
        BY <1>2, <1>4, <1>6, <2>0
    <2>2. LET t == FlattenSeq(lines) IN
          /\ t \in Seq(Words) /\ Len(t) > Len(lines[1]) /\ Last(t) = d
          /\ \A x \in 1..Len(lines[1]) : t[x] = lines[1][x]
        BY ONLY <2>1, FlattenEnds, SMTT(40)
    <2> QED
        BY <1>3, <2>2 DEF Text
<1>8. ~Has(lines[1], "guard") /\ "guard" \notin Traits[d]
    <2>1. DOMAIN lines[1] = 1..4 /\ \A x \in 1..4 : x \in DOMAIN text
        BY <1>3, <1>5, <1>7
    <2>2. Len(text) \in DOMAIN text /\ text[Len(text)] = d
        BY <1>7 DEF Last
    <2> HIDE DEF text
    <2> QED
        BY <1>2, <1>7, <2>1, <2>2 DEF Has
<1> HIDE DEF text
<1>9. LastToken(text) = <<d>>
    BY <1>4, <1>7 DEF LastToken
<1> QED
    BY <1>2, <1>3, <1>4, <1>5, <1>7, <1>8, <1>9 DEF text, d

\* With nothing to write it is still recognised, and its text is what was scanned.
LEMMA EmptyHeredoc ==
    ASSUME NEW lines \in Seq(Seq(Words)), lines # << >>,
           heredoc_authoring_scan(lines) # NoScan
    PROVE  LET shortest == WithoutText(lines) IN
           /\ shortest \in Seq(Seq(Words)) /\ shortest # << >> /\ shortest[1] = lines[1]
           /\ heredoc_authoring_scan(shortest) = heredoc_authoring_scan(lines)
           /\ ~Unparseable(Text(shortest))
<1> DEFINE header == lines[1]
<1> DEFINE d == Terminator[header[4]]
<1> DEFINE shortest == WithoutText(lines)
<1> DEFINE text == Text(shortest)
<1>1. /\ header \in Seq(Words) /\ authoring_header(header) /\ Len(header) = 4
      /\ d \in Words /\ "quote" \notin Traits[d]
      /\ heredoc_authoring_scan(lines) = header \o <<d>>
      /\ ~Has(header, "guard") /\ "guard" \notin Traits[d]
    BY HeredocText
<1> HIDE DEF header, d
<1>2. shortest = <<header, <<d>>>>
    BY DEF WithoutText, header, d
<1>3. shortest \in Seq(Seq(Words)) /\ shortest # << >> /\ Len(shortest) = 2
      /\ shortest[1] = header /\ shortest[2] = <<d>>
    BY <1>1, <1>2
<1> HIDE DEF shortest
<1>4. text = header \o <<d>>
    <2>1. PICK f : Flat(shortest, f, Len(shortest)) /\ FlattenSeq(shortest) = f[Len(shortest)]
        BY <1>3, FlattenIsFlat
    <2>2. f = [i \in 1..2 |-> IF i = 1 THEN shortest[i] ELSE f[i - 1] \o shortest[i]]
        BY <1>3, <2>1 DEF Flat
    <2>3. f[2] = f[1] \o shortest[2] /\ f[1] = shortest[1]
        <3>1. 1 \in 1..2 /\ 2 \in 1..2 /\ 2 # 1 /\ 2 - 1 = 1
            OBVIOUS
        <3> QED
            BY <2>2, <3>1, Zenon
    <2>4. text = f[2]
        BY <1>3, <2>1 DEF Text
    <2> QED
        BY <1>3, <2>3, <2>4
<1>5. /\ text \in Seq(Words) /\ Len(text) = 5 /\ text[5] = d
      /\ \A x \in 1..4 : text[x] = header[x] /\ x \in DOMAIN header
    <2>1. header \in Seq(Words) /\ Len(header) = 4 /\ d \in Words
        BY <1>1
    <2> HIDE DEF text
    <2>2. /\ text \in Seq(Words) /\ Len(text) = Len(header) + 1
          /\ text[Len(header) + 1] = d
          /\ \A x \in 1..Len(header) : text[x] = header[x] /\ x \in DOMAIN header
        <3>1. /\ header \o <<d>> \in Seq(Words) /\ Len(header \o <<d>>) = Len(header) + 1
              /\ (header \o <<d>>)[Len(header) + 1] = d
              /\ \A x \in 1..Len(header) :
                    (header \o <<d>>)[x] = header[x] /\ x \in DOMAIN header
            BY <2>1, AddOne, Zenon
        <3> QED
            BY ONLY <1>4, <3>1, Zenon
    <2>3. 4 + 1 = 5
        OBVIOUS
    <2> QED
        BY ONLY <2>1, <2>2, <2>3
<1> HIDE DEF text
<1>6. \A x \in DOMAIN text : x = 5 \/ x \in 1..4
    BY <1>5
<1>7. ~Has(text, "guard")
    BY <1>1, <1>5, <1>6 DEF Has
<1>8. ~Unparseable(text)
    <2>1. ~Has(header, "quote")
        BY <1>1 DEF authoring_header
    <2>2. {x \in DOMAIN text : "quote" \in Traits[text[x]]} = {}
        BY <1>1, <1>5, <1>6, <2>1 DEF Has
    <2>3. Cardinality({}) = 0
        BY FS_EmptySet
    <2>4. 0 % 2 # 1
        OBVIOUS
    <2> QED
        BY <2>2, <2>3, <2>4, Zenon DEF Unparseable
<1>9. heredoc_authoring_scan(shortest) = header \o <<d>>
    <2> DEFINE rest == Chomp(Tail(shortest))
    <2>1. Tail(shortest) = <<<<d>>>>
        BY <1>2 DEF shortest
    <2>2. Last(<<<<d>>>>) = <<d>> /\ <<d>> # << >> /\ <<<<d>>>> # << >>
        BY DEF Last
    <2>3. rest = <<<<d>>>>
        BY <2>1, <2>2 DEF Chomp
    <2> HIDE DEF rest
    <2>4. Len(Front(rest)) = 0
        <3>1. rest \in Seq(Seq(Words)) /\ Len(rest) = 1 /\ rest # << >>
            BY <1>1, <2>3
        <3>2. Len(Front(rest)) = Len(rest) - 1
            BY ONLY <3>1, FrontIs
        <3> QED
            BY <3>1, <3>2
    <2>5. ~Contains(Front(rest), Last(rest))
        BY <2>3, <2>4 DEF Contains
    <2> QED
        BY <1>1, <1>3, <1>7, <2>2, <2>3, <2>5 DEF heredoc_authoring_scan, rest, text, d
<1> QED
    BY <1>1, <1>3, <1>8, <1>9 DEF shortest, text, header

\* A recognised heredoc whose quotes are balanced is classified as one with nothing
\* to write.
LEMMA TextIsFree ==
    ASSUME NEW k \in Calls, k.tool = "bash",
           heredoc_authoring_scan(k.lines) # NoScan, ~Unparseable(Text(k.lines))
    PROVE  classify_capital(k) = classify_capital([k EXCEPT !.lines = WithoutText(@)])
<1> DEFINE shortest == WithoutText(k.lines)
<1> DEFINE e == [k EXCEPT !.lines = shortest]
<1>1. k.lines \in Seq(Seq(Words)) /\ k.lines # << >>
    BY CallLines
<1>2. e.tool = "bash" /\ e.lines = shortest
    BY DEF Calls
<1>3. /\ shortest \in Seq(Seq(Words)) /\ shortest # << >> /\ shortest[1] = k.lines[1]
      /\ heredoc_authoring_scan(shortest) = heredoc_authoring_scan(k.lines)
      /\ ~Unparseable(Text(shortest))
    BY <1>1, EmptyHeredoc
<1> HIDE DEF shortest, e
<1>4. Target(k) = <<Terminator[k.lines[1][4]]>>
    <2>1. LastToken(Text(k.lines)) = <<Terminator[k.lines[1][4]]>> /\ Len(Text(k.lines)) > 4
          /\ Text(k.lines) \in Seq(Words)
        BY <1>1, HeredocText
    <2>2. ~(Len(Text(k.lines)) < 2)
        BY <2>1
    <2> QED
        BY <2>1, <2>2 DEF Target
<1>5. Target(e) = <<Terminator[k.lines[1][4]]>>
    <2>1. LastToken(Text(shortest)) = <<Terminator[shortest[1][4]]>> /\ Len(Text(shortest)) > 4
          /\ Text(shortest) \in Seq(Words)
        BY <1>3, HeredocText
    <2>2. ~(Len(Text(shortest)) < 2)
        BY <2>1
    <2> QED
        BY <1>2, <1>3, <2>1, <2>2 DEF Target
<1>6. Haystack(e) = Haystack(k)
    BY <1>2, <1>3, <1>4, <1>5 DEF Haystack
<1>7. classify_capital(e) = classify_capital(k)
    BY <1>2, <1>6 DEF classify_capital
<1> QED
    BY <1>7 DEF e, shortest

\* What the heredoc rule leaves out is written and not run.
LEMMA LeftOutIsWritten ==
    ASSUME NEW lines \in Seq(Seq(Words)), lines # << >>,
           heredoc_authoring_scan(lines) # NoScan,
           NEW i \in RunLines(lines)
    PROVE  ToSet(lines[i]) \subseteq ToSet(heredoc_authoring_scan(lines))
<1> DEFINE header == lines[1]
<1> DEFINE end == <<Terminator[header[4]]>>
<1>1. PICK m : Heredoc(lines, m)
    BY HeredocLines
<1>2. /\ m \in Nat \ {0} /\ m + 1 \in DOMAIN lines /\ lines[m + 1] = end
      /\ \A j \in 2..m : j \in DOMAIN lines /\ lines[j] # end
      /\ \A j \in DOMAIN lines : j > m + 1 => lines[j] = << >>
      /\ heredoc_authoring_scan(lines) = header \o end
      /\ ~Has(Text(lines), "guard") /\ authoring_header(header)
    BY <1>1 DEF Heredoc
<1>3. /\ header \in Seq(Words) /\ end \in Seq(Words) /\ DOMAIN lines = 1..Len(lines)
      /\ Len(lines) \in Nat /\ 1 \in DOMAIN lines
    <2> HIDE DEF end
    <2>1. \A j \in DOMAIN lines : lines[j] \in Seq(Words)
        OBVIOUS
    <2>2. DOMAIN lines = 1..Len(lines) /\ Len(lines) \in Nat /\ 1 \in DOMAIN lines
        OBVIOUS
    <2>3. m + 1 \in DOMAIN lines /\ lines[m + 1] = end
        BY <1>2
    <2>4. end \in Seq(Words)
        BY <2>1, <2>3
    <2> QED
        BY <2>1, <2>2, <2>4
<1>4. /\ Len(header) = 4 /\ header # << >> /\ 4 \in DOMAIN header
      /\ "cat" \in Traits[header[1]]
      /\ "redirect" \in Traits[header[2]] /\ 2 \in DOMAIN header /\ 2 + 1 \in DOMAIN header
      /\ SinkKind[header[2 + 1]] # "special" /\ header[4] \in DOMAIN Terminator
    BY <1>2, <1>3 DEF authoring_header
<1>5. ~Has(header, "guard")
    <2>1. ToSet(header) \subseteq ToSet(Text(lines))
        BY <1>3, TextWords
    <2>2. ~Has(Text(lines), "guard")
        BY <1>2
    <2> QED
        BY ONLY <2>1, <2>2 DEF Has, ToSet
<1> HIDE DEF end
<1>6. \A j \in 2..Len(lines) : lines[j] = end => j = m + 1
    <2>1. end # << >>
        BY DEF end
    <2>2. ASSUME NEW j \in 2..Len(lines), lines[j] = end
          PROVE  j = m + 1
        <3>0. j \in DOMAIN lines
            BY <1>3
        <3>1. ~(j > m + 1)
            BY <1>2, <2>1, <2>2, <3>0
        <3>2. j \notin 2..m
            BY <1>2, <2>2
        <3>3. j \in Nat /\ j > 1 /\ m \in Nat
            BY <1>2
        <3> QED
            BY ONLY <3>1, <3>2, <3>3
    <2> QED
        BY <2>2
<1>7. \A j \in 2..m : j \in WrittenLines(lines)
    <2> DEFINE heredocs == {x \in DOMAIN header : header[x] \in DOMAIN Terminator}
    <2> DEFINE ends(x) == {j \in 2..Len(lines) : lines[j] = <<Terminator[header[x]]>>}
    <2> DEFINE body(x) == {j \in 2..Len(lines) : \A k \in ends(x) : j < k}
    <2>1. WrittenLines(lines) = UNION {body(x) : x \in heredocs}
        BY <1>4, <1>5 DEF WrittenLines
    <2>2. 4 \in heredocs
        BY <1>4
    <2>3. \A k \in ends(4) : k = m + 1
        BY <1>6 DEF end
    <2>4. ASSUME NEW j \in 2..m
          PROVE  j \in body(4)
        <3>1. j \in 2..Len(lines) /\ j < m + 1
            BY <1>2, <1>3, <2>4
        <3> HIDE DEF ends
        <3> QED
            BY <2>3, <3>1
    <2> HIDE DEF heredocs, body
    <2> QED
        BY <2>1, <2>2, <2>4
<1>8. i = 1 \/ i = m + 1 \/ lines[i] = << >>
    <2>1. i \in 1..Len(lines) /\ i \notin WrittenLines(lines) /\ i \in DOMAIN lines
        BY <1>3 DEF RunLines
    <2>2. i = 1 \/ i \in 2..m \/ i = m + 1 \/ i > m + 1
        BY <1>2, <2>1
    <2> QED
        BY <1>2, <1>7, <2>1, <2>2
<1>9. ToSet(header \o end) = ToSet(header) \cup ToSet(end)
    BY <1>3, ConcatElements
<1>10. ToSet(<< >>) = {}
    BY DEF ToSet
<1> QED
    BY <1>2, <1>8, <1>9, <1>10

\* Every word of a line that is run is scanned.
LEMMA RunIsScanned ==
    ASSUME NEW k, k.lines \in Seq(Seq(Words)), k.lines # << >>, k.tool = "bash",
           NEW i \in RunLines(k.lines)
    PROVE  ToSet(k.lines[i]) \subseteq ToSet(Haystack(k))
<1>1. /\ k.lines \in Seq(Seq(Words)) /\ k.lines # << >>
      /\ Text(k.lines) \in Seq(Words)
      /\ \A j \in DOMAIN k.lines : ToSet(k.lines[j]) \subseteq ToSet(Text(k.lines))
    BY TextWords
<1>2. Target(k) \in Seq(Words)
    BY TargetWords
<1>3. CASE heredoc_authoring_scan(k.lines) = NoScan
    <2>1. Haystack(k) = Text(k.lines) \o Target(k)
        BY <1>3 DEF Haystack
    <2>2. i \in DOMAIN k.lines
        BY DEF RunLines
    <2> QED
        BY <1>1, <1>2, <2>1, <2>2, ConcatElements
<1>4. CASE heredoc_authoring_scan(k.lines) # NoScan
    <2> DEFINE scan == heredoc_authoring_scan(k.lines)
    <2>1. Haystack(k) = scan \o Target(k)
        BY <1>4 DEF Haystack
    <2>2. ToSet(k.lines[i]) \subseteq ToSet(scan)
        <3>1. 1 \in DOMAIN k.lines
            BY <1>1
        <3> QED
            BY <1>1, <1>4, <3>1, LeftOutIsWritten
    <2>3. scan \in Seq(Words)
        BY <1>1, <1>4, ScanWords
    <2> HIDE DEF scan
    <2> QED
        BY <1>2, <2>1, <2>2, <2>3, ConcatElements
<1> QED
    BY <1>3, <1>4
----------------------------------------------------------------------------
\* A label is that of the nearest registered path above the directory.
LEMMA PrefixIs ==
    ASSUME NEW S, NEW a \in Seq(S), NEW p \in Seq(S)
    PROVE  IsPrefix(a, p) <=> Len(a) <= Len(p) /\ \A i \in 1..Len(a) : a[i] = p[i]
<1>1. Len(a) \in Nat /\ Len(p) \in Nat
    OBVIOUS
<1>2. CASE Len(a) <= Len(p)
    <2> DEFINE x == SubSeq(a, 1, Len(a))
    <2> DEFINE y == SubSeq(p, 1, Len(a))
    <2>1. /\ x \in Seq(S) /\ Len(x) = Len(a) /\ \A i \in 1..Len(a) : x[i] = a[i]
          /\ y \in Seq(S) /\ Len(y) = Len(a) /\ \A i \in 1..Len(a) : y[i] = p[i]
        BY <1>1, <1>2
    <2>2. IsPrefix(a, p) <=> x = y
        BY <1>2 DEF IsPrefix
    <2> HIDE DEF x, y
    <2>3. (\A i \in 1..Len(a) : x[i] = y[i]) => x = y
        BY <1>1, <2>1, SeqEqual
    <2> QED
        BY <1>2, <2>1, <2>2, <2>3
<1>3. CASE ~(Len(a) <= Len(p))
    BY <1>3 DEF IsPrefix
<1> QED
    BY <1>2, <1>3

LEMMA NearestPath ==
    ASSUME NEW rs \in Seq(Repositories), NEW p \in Seq(Components)
    PROVE  LET above == {i \in DOMAIN rs : IsPrefix(rs[i].path, p)} IN
           /\ classify_path(rs, p) = NoLabel <=> above = {}
           /\ \A i \in above : \E j \in above :
                rs[j].id = classify_path(rs, p) /\ IsPrefix(rs[i].path, rs[j].path)
<1> DEFINE above == {i \in DOMAIN rs : IsPrefix(rs[i].path, p)}
<1> DEFINE longest == {i \in above : \A j \in above :
                          \/ Len(rs[j].path) < Len(rs[i].path)
                          \/ Len(rs[j].path) = Len(rs[i].path) /\ i <= j}
<1>1. classify_path(rs, p) =
        IF above = {} THEN NoLabel ELSE rs[CHOOSE i \in longest : TRUE].id
    BY DEF classify_path
<1>2. \A i \in DOMAIN rs : rs[i].path \in Seq(Components) /\ rs[i].id \in Labels
    <2>1. \A i \in DOMAIN rs : rs[i] \in Repositories
        OBVIOUS
    <2> QED
        BY <2>1 DEF Repositories
<1>3. \A i \in above : /\ i \in Nat /\ i \in DOMAIN rs /\ rs[i].path \in Seq(Components)
                       /\ Len(rs[i].path) \in 0..Len(p)
    BY <1>2 DEF IsPrefix
<1>4. CASE above = {}
    BY <1>1, <1>4
<1>5. CASE above # {}
    <2> DEFINE lens == {Len(rs[i].path) : i \in above}
    <2> DEFINE top == Max(lens)
    <2> DEFINE tops == {i \in above : Len(rs[i].path) = top}
    <2> DEFINE first == Min(tops)
    <2> HIDE DEF above
    <2>1. top \in lens /\ \A n \in lens : n <= top
        <3>1. \A i \in above : Len(rs[i].path) \in 0..Len(p)
            BY <1>3
        <3>2. lens \in SUBSET (0..Len(p)) /\ lens # {}
            BY <1>5, <3>1
        <3>3. Len(p) \in Nat
            OBVIOUS
        <3> HIDE DEF lens
        <3> QED
            BY <3>2, <3>3, MaxIsIn
    <2> HIDE DEF top
    <2>2. first \in tops /\ \A i \in tops : first <= i
        <3>1. tops \in SUBSET Nat /\ tops # {}
            BY <1>3, <2>1
        <3> HIDE DEF tops
        <3> QED
            BY <3>1, MinIsIn
    <2> HIDE DEF first
    <2>3. first \in longest
        <3>1. ASSUME NEW j \in above
              PROVE  \/ Len(rs[j].path) < Len(rs[first].path)
                     \/ Len(rs[j].path) = Len(rs[first].path) /\ first <= j
            <4>1. Len(rs[j].path) <= top /\ Len(rs[j].path) \in Nat /\ Len(rs[first].path) = top
                BY <1>3, <2>1, <2>2
            <4>2. CASE Len(rs[j].path) = top
                BY <2>2, <4>1, <4>2
            <4>3. CASE Len(rs[j].path) # top
                <5>1. top \in Nat
                    BY <1>3, <2>2, <4>1
                <5> QED
                    BY <4>1, <4>3, <5>1
            <4> QED
                BY <4>2, <4>3
        <3>2. first \in above
            BY <2>2
        <3> QED
            BY <3>1, <3>2
    <2>4. PICK k \in longest : k = CHOOSE i \in longest : TRUE
        BY <2>3
    <2>5. k \in above /\ rs[k].id = classify_path(rs, p)
        BY <1>1, <1>5, <2>4
    <2>6. classify_path(rs, p) # NoLabel
        BY <1>2, <1>3, <2>5, RegistryAssumption
    <2>7. ASSUME NEW i \in above
          PROVE  IsPrefix(rs[i].path, rs[k].path)
        <3>1. Len(rs[i].path) <= Len(rs[k].path)
            <4>1. Len(rs[i].path) \in Nat /\ Len(rs[k].path) \in Nat
                BY <1>3, <2>5
            <4>2. Len(rs[i].path) < Len(rs[k].path) \/ Len(rs[i].path) = Len(rs[k].path)
                BY <2>4
            <4> QED
                BY <4>1, <4>2
        <3>2. /\ rs[i].path \in Seq(Components) /\ rs[k].path \in Seq(Components)
              /\ Len(rs[i].path) \in Nat /\ Len(rs[k].path) \in Nat
            BY <1>3, <2>5
        <3>3. IsPrefix(rs[i].path, p) /\ IsPrefix(rs[k].path, p)
            BY <2>5 DEF above
        <3>4. \A x \in 1..Len(rs[i].path) : rs[i].path[x] = p[x]
            BY <3>2, <3>3, PrefixIs
        <3>5. \A x \in 1..Len(rs[k].path) : rs[k].path[x] = p[x]
            BY <3>2, <3>3, PrefixIs
        <3>6. \A x \in 1..Len(rs[i].path) : x \in 1..Len(rs[k].path)
            BY <3>1, <3>2
        <3>7. \A x \in 1..Len(rs[i].path) : rs[i].path[x] = rs[k].path[x]
            BY <3>4, <3>5, <3>6
        <3> QED
            BY <3>1, <3>2, <3>7, PrefixIs
    <2> QED
        BY <1>5, <2>5, <2>6, <2>7 DEF above
<1> QED
    BY <1>4, <1>5

----------------------------------------------------------------------------
\* Whatever repository the registry names for a text is that of a capital service
\* that a text around it mentions.
Mentioned(ss, text, repo) ==
    \E i \in DOMAIN ss :
        /\ ss[i].capital /\ ss[i].repo = repo
        /\ \E needle \in {ss[i].name, ss[i].pattern} \ {NoText} : Mentions(text, needle)

LEMMA ServiceIsMentioned ==
    ASSUME NEW ss \in Seq(Services), NEW text \in Seq(Words), NEW name \in Seq(Words),
           \A i \in DOMAIN name : Mentions(text, name[i]),
           repo_for_service(ss, name) # NoRepo
    PROVE  Mentioned(ss, text, repo_for_service(ss, name))
<1> DEFINE I == {i \in 1..Len(ss) : service_matches(name, ss[i]) /\ ss[i].capital}
<1>1. repo_for_service(ss, name) = (IF I # {} THEN ss[Min(I)].repo ELSE NoRepo)
    <2>1. I # {} => Min(I) \in I
        <3>1. I \in SUBSET Nat
            OBVIOUS
        <3> HIDE DEF I
        <3> QED
            BY <3>1, MinIsIn
    <2>2. I # {} => Min(I) # 0
        BY <2>1
    <2>3. SelectInSeq(ss, LAMBDA s : service_matches(name, s) /\ s.capital) =
            IF I # {} THEN Min(I) ELSE 0
        BY DEF SelectInSeq
    <2> HIDE DEF I
    <2> QED
        BY <2>2, <2>3 DEF repo_for_service
<1>2. PICK i \in I : repo_for_service(ss, name) = ss[i].repo
    <2>1. I \in SUBSET Nat /\ I # {}
        BY <1>1
    <2> HIDE DEF I
    <2> QED
        BY <1>1, <2>1, MinIsIn
<1> DEFINE s == ss[i]
<1>3. /\ i \in DOMAIN ss /\ s \in Services /\ s.capital /\ service_matches(name, s)
    BY <1>2
<1> HIDE DEF I, s
<1>4. s.name \in Words \cup {NoText} /\ s.pattern \in Words \cup {NoText}
    BY <1>3 DEF Services
<1>5. CASE name = <<s.name>>
    <2>1. 1 \in DOMAIN name /\ name[1] = s.name /\ name[1] \in Words
        BY <1>5
    <2>2. Mentions(text, s.name) /\ s.name # NoText
        BY <2>1, RegistryAssumption
    <2> QED
        BY <1>2, <1>3, <2>2 DEF Mentioned, s
<1>6. CASE name # <<s.name>>
    <2>1. s.pattern # NoText /\ s.match # "exact" /\ name # << >>
        BY <1>3, <1>6 DEF service_matches
    <2>2. PICK j \in DOMAIN name : name[j] \in Occurs["contains"][s.pattern]
        <3>1. s.pattern \in Words /\ s.match \in MatchModes
            BY <1>3, <1>4, <2>1 DEF Services
        <3>2. Occurs["prefix"][s.pattern] \cup Occurs["suffix"][s.pattern]
                \subseteq Occurs["contains"][s.pattern]
            BY <3>1, RegistryAssumption
        <3>3. 1 \in DOMAIN name /\ Len(name) \in DOMAIN name
            BY <2>1
        <3>4. CASE s.match = "contains"
            BY <1>3, <1>6, <3>4 DEF service_matches, Mentions
        <3>5. CASE s.match = "prefix"
            BY <1>3, <1>6, <3>2, <3>3, <3>5 DEF service_matches
        <3>6. CASE s.match = "suffix"
            BY <1>3, <1>6, <3>2, <3>3, <3>6 DEF service_matches, Last
        <3> QED
            BY <3>1, <3>4, <3>5, <3>6 DEF MatchModes
    <2>3. Mentions(text, name[j]) /\ name[j] \in Words
        BY <2>2
    <2>4. s.pattern \in Words
        BY <1>4, <2>1
    <2>5. Occurs["contains"][name[j]] \subseteq Occurs["contains"][s.pattern]
        BY <2>2, <2>4, RegistryAssumption
    <2>6. Mentions(text, s.pattern)
        BY <2>3, <2>5 DEF Mentions
    <2> QED
        BY <1>2, <1>3, <2>1, <2>6 DEF Mentioned, s
<1> QED
    BY <1>5, <1>6

\* A service the command names, or the target of the call: both are made of words
\* the command mentions.
LEMMA NameIsMentioned ==
    ASSUME NEW k \in Calls, NEW ss \in Seq(Services), NEW name,
           \/ name = Target(k)
           \/ \E i \in DOMAIN ss : /\ ss[i].name # NoText /\ Mentions(Text(k.lines), ss[i].name)
                                  /\ name = <<ss[i].name>>
    PROVE  name \in Seq(Words) /\ \A i \in DOMAIN name : Mentions(Text(k.lines), name[i])
<1> DEFINE text == Text(k.lines)
<1>0. k.lines \in Seq(Seq(Words)) /\ k.lines # << >>
    BY CallLines
<1>1. text \in Seq(Words)
    BY <1>0, TextWords
<1>2. CASE name = Target(k)
    <2>1. name \in Seq(Words) /\ ToSet(name) \subseteq ToSet(text)
        BY <1>0, <1>2, TargetWords
    <2>2. ASSUME NEW i \in DOMAIN name
          PROVE  Mentions(text, name[i])
        <3>1. PICK j \in DOMAIN text : text[j] = name[i]
            BY <2>1 DEF ToSet
        <3>2. name[i] \in Words
            BY <2>1
        <3>3. name[i] \in Occurs["contains"][name[i]]
            BY <3>2, RegistryAssumption
        <3> QED
            BY <3>1, <3>3 DEF Mentions
    <2> QED
        BY <2>1, <2>2
<1>3. CASE name # Target(k)
    <2>1. PICK i \in DOMAIN ss : /\ ss[i].name # NoText /\ Mentions(text, ss[i].name)
                                 /\ name = <<ss[i].name>>
        BY <1>3
    <2>2. ss[i] \in Services
        OBVIOUS
    <2>3. ss[i].name \in Words
        BY <2>1, <2>2 DEF Services
    <2> QED
        BY <2>1, <2>3
<1> QED
    BY <1>2, <1>3

----------------------------------------------------------------------------
\* A run line that mutates a capital service makes its call capital, and the call
\* is none of the simple commands that only read.
LEMMA MutationIsCapital ==
    ASSUME NEW k \in Calls, k.tool = "bash", Registered,
           NEW i \in RunLines(k.lines), MutatesCapitalService(k.lines[i])
    PROVE  classify_capital(k) \in {"capital-secret-surface", "capital-service-mutation"}
<1> DEFINE line == k.lines[i]
<1> DEFINE haystack == Haystack(k)
<1>1. k.lines \in Seq(Seq(Words)) /\ k.lines # << >>
    BY CallLines
<1>2. ToSet(line) \subseteq ToSet(haystack)
    BY <1>1, RunIsScanned
<1>3. line \in Seq(Words) /\ Len(line) > 2
    BY <1>1 DEF RunLines, MutatesCapitalService
<1>4. 1 \in DOMAIN line /\ 2 \in DOMAIN line
    BY <1>3
<1> HIDE DEF haystack
<1>5. \A n \in DOMAIN line : \E j \in DOMAIN haystack : haystack[j] = line[n]
    BY <1>2 DEF ToSet
<1>6. Has(haystack, "manager") /\ Has(haystack, "verb")
    <2> HIDE DEF line
    <2> QED
        BY <1>4, <1>5 DEF Has, MutatesCapitalService, line
<1>7. PICK n \in DOMAIN services :
            /\ services[n].capital /\ services[n].name # NoText
            /\ Contains(line, services[n].name)
    BY DEF MutatesCapitalService
<1>8. services[n].name \in Occurs["contains"][services[n].name]
    <2>1. services[n] \in Services
        BY DEF Registered
    <2>2. services[n].name \in Words
        BY <1>7, <2>1 DEF Services
    <2> QED
        BY <2>2, RegistryAssumption
<1>9. Mentions(haystack, services[n].name)
    BY <1>5, <1>7, <1>8 DEF Contains, Mentions
<1>10. capital_service_mutation(haystack)
    BY <1>6, <1>7, <1>9 DEF capital_service_mutation
<1> QED
    BY <1>10 DEF classify_capital, haystack

LEMMA MutationIsNoRead ==
    ASSUME NEW k \in Calls, k.tool = "bash",
           NEW i \in RunLines(k.lines), MutatesCapitalService(k.lines[i])
    PROVE  ~is_read_only(k)
<1>1. SUFFICES ASSUME is_read_only_bash(k.lines) PROVE FALSE
    BY DEF is_read_only
<1>2. k.lines \in Seq(Seq(Words)) /\ k.lines # << >> /\ Len(k.lines) = 1
    BY <1>1, CallLines DEF is_read_only_bash
<1> DEFINE text == Text(k.lines)
<1>3. k.lines[i] = text
    <2>1. i = 1
        BY <1>2 DEF RunLines
    <2>2. PICK f : Flat(k.lines, f, 1) /\ FlattenSeq(k.lines) = f[1]
        BY <1>2, FlattenIsFlat
    <2>3. f[1] = k.lines[1]
        BY <2>2 DEF Flat
    <2> QED
        BY <2>1, <2>2, <2>3 DEF Text
<1>4. text \in Seq(Words)
    BY <1>2, TextWords
<1> HIDE DEF text
<1>5. /\ Len(text) > 2
      /\ "read" \notin Traits[text[1]] /\ "git" \notin Traits[text[1]]
      /\ "option" \notin Traits[text[2]] /\ "systemctl-read" \notin Traits[text[2]]
    BY <1>3 DEF MutatesCapitalService
<1>6. subcommand_is_read_only(text)
    BY <1>1, <1>5 DEF is_read_only_bash, text
<1> DEFINE I == {n \in 1..Len(Tail(text)) : "option" \notin Traits[Tail(text)[n]]}
<1>7. Tail(text)[1] = text[2] /\ 1 \in 1..Len(Tail(text))
    BY <1>4, <1>5
<1>8. 1 \in I /\ I \in SUBSET (Nat \ {0})
    BY <1>5, <1>7
<1>9. Min(I) = 1
    <2> HIDE DEF I
    <2>1. Min(I) \in I /\ \A n \in I : Min(I) <= n
        BY <1>8, MinIsIn
    <2>2. Min(I) <= 1 /\ Min(I) \in Nat \ {0}
        BY <1>8, <2>1
    <2> QED
        BY <2>2
<1>10. SelectInSeq(Tail(text), LAMBDA w : "option" \notin Traits[w]) = 1
    BY <1>8, <1>9 DEF SelectInSeq
<1> QED
    BY <1>5, <1>6, <1>7, <1>10 DEF subcommand_is_read_only

----------------------------------------------------------------------------
\* What is scanned are words of the command.
LEMMA HaystackWords ==
    ASSUME NEW k, k.lines \in Seq(Seq(Words)), k.lines # << >>, k.tool = "bash"
    PROVE  Haystack(k) \in Seq(Words) /\ ToSet(Haystack(k)) \subseteq ToSet(Text(k.lines))
<1> DEFINE text == Text(k.lines)
<1>1. /\ text \in Seq(Words) /\ Target(k) \in Seq(Words)
      /\ ToSet(Target(k)) \subseteq ToSet(text)
    BY TextWords, TargetWords
<1>2. CASE heredoc_authoring_scan(k.lines) = NoScan
    <2>1. Haystack(k) = text \o Target(k)
        BY <1>2 DEF Haystack
    <2> HIDE DEF text
    <2> QED
        BY <1>1, <2>1, ConcatElements DEF text
<1>3. CASE heredoc_authoring_scan(k.lines) # NoScan
    <2> DEFINE header == k.lines[1]
    <2> DEFINE d == Terminator[header[4]]
    <2>1. /\ header \in Seq(Words) /\ Len(header) = 4 /\ d \in Words
          /\ heredoc_authoring_scan(k.lines) = header \o <<d>>
          /\ Len(text) > 4 /\ Last(text) = d /\ \A x \in 1..4 : text[x] = header[x]
        BY <1>3, HeredocText
    <2>2. Haystack(k) = (header \o <<d>>) \o Target(k)
        BY <1>3, <2>1 DEF Haystack
    <2> HIDE DEF text, header, d
    <2>3. ToSet(header) \subseteq ToSet(text)
        <3>1. DOMAIN header = 1..4 /\ \A x \in 1..4 : x \in DOMAIN text
            BY <1>1, <2>1
        <3> QED
            BY <2>1, <3>1 DEF ToSet
    <2>4. <<d>> \in Seq(Words) /\ ToSet(<<d>>) \subseteq ToSet(text)
        <3>1. Len(text) \in DOMAIN text /\ text[Len(text)] = d
            BY <1>1, <2>1 DEF Last
        <3> QED
            BY <2>1, <3>1 DEF ToSet
    <2>5. PICK end : end = <<d>>
        OBVIOUS
    <2>6. PICK scan : scan = header \o end
        OBVIOUS
    <2>7. scan \in Seq(Words) /\ ToSet(scan) = ToSet(header) \cup ToSet(end)
        <3>1. header \in Seq(Words) /\ end \in Seq(Words)
            BY <2>1, <2>4, <2>5
        <3> QED
            BY ONLY <2>6, <3>1, ConcatElements
    <2>8. /\ Haystack(k) \in Seq(Words)
          /\ ToSet(Haystack(k)) = ToSet(scan) \cup ToSet(Target(k))
        <3>1. Haystack(k) = scan \o Target(k) /\ Target(k) \in Seq(Words)
            BY <1>1, <2>2, <2>5, <2>6
        <3> QED
            BY ONLY <2>7, <3>1, ConcatElements
    <2> QED
        BY <1>1, <2>3, <2>4, <2>5, <2>7, <2>8 DEF text
<1> QED
    BY <1>2, <1>3

\* a is the first address of the text.
FirstIs(text, a) ==
    \E i \in DOMAIN text :
        /\ text[i] = a /\ "address" \in Traits[a]
        /\ \A n \in 1..(i - 1) : "address" \notin Traits[text[n]]

LEMMA FirstAddress ==
    ASSUME NEW text \in Seq(Words)
    PROVE  references_capital_address(text) <=>
            \/ \E a : FirstIs(text, a) /\ "capital-address" \in Traits[a]
            \/ Has(text, "capital-env")
<1> DEFINE I == {i \in 1..Len(text) : "address" \in Traits[text[i]]}
<1> DEFINE first == SelectInSeq(text, LAMBDA w : "address" \in Traits[w])
<1>1. first = IF I # {} THEN Min(I) ELSE 0
    BY DEF SelectInSeq
<1>2. I # {} => Min(I) \in I /\ \A i \in I : Min(I) <= i
    <2>1. I \in SUBSET Nat
        OBVIOUS
    <2> HIDE DEF I
    <2> QED
        BY <2>1, MinIsIn
<1>3. \A i \in I : i \in Nat \ {0} /\ i \in DOMAIN text
    OBVIOUS
<1>4. ASSUME NEW a, FirstIs(text, a)
      PROVE  first # 0 /\ text[first] = a
    <2>1. PICK i \in DOMAIN text :
            /\ text[i] = a /\ "address" \in Traits[a]
            /\ \A n \in 1..(i - 1) : "address" \notin Traits[text[n]]
        BY <1>4 DEF FirstIs
    <2>2. i \in I
        BY <2>1
    <2>3. \A n \in I : n \notin 1..(i - 1)
        BY <2>1
    <2>4. Min(I) \in I /\ Min(I) <= i /\ Min(I) \notin 1..(i - 1)
        BY <1>2, <2>2, <2>3
    <2>5. Min(I) = i
        <3>1. Min(I) \in Nat \ {0} /\ i \in Nat
            BY <1>3, <2>2, <2>4
        <3> QED
            BY <2>4, <3>1
    <2> QED
        BY <1>1, <1>3, <2>1, <2>2, <2>5
<1>5. ASSUME first # 0
      PROVE  FirstIs(text, text[first])
    <2>1. first \in I /\ \A i \in I : first <= i
        BY <1>1, <1>2, <1>5
    <2>2. first \in 1..Len(text) /\ "address" \in Traits[text[first]]
        BY <2>1
    <2> HIDE DEF first
    <2>3. ASSUME NEW n \in 1..(first - 1), "address" \in Traits[text[n]]
          PROVE  FALSE
        <3>1. n \in 1..Len(text) /\ ~(first <= n)
            BY <2>2
        <3> QED
            BY <2>1, <2>3, <3>1
    <2> QED
        BY <2>2, <2>3 DEF FirstIs
<1> HIDE DEF first, I
<1>6. references_capital_address(text) <=>
        \/ first # 0 /\ "capital-address" \in Traits[text[first]]
        \/ Has(text, "capital-env")
    BY DEF references_capital_address, first
<1> QED
    BY <1>4, <1>5, <1>6

\* It is that of what comes in front, and of what is behind only without one there.
LEMMA FirstOfPrefix ==
    ASSUME NEW x \in Seq(Words), NEW t \in Seq(Words), Len(x) <= Len(t),
           \A n \in 1..Len(x) : t[n] = x[n], NEW a, FirstIs(x, a)
    PROVE  FirstIs(t, a)
<1>1. PICK i \in DOMAIN x :
        /\ x[i] = a /\ "address" \in Traits[a]
        /\ \A n \in 1..(i - 1) : "address" \notin Traits[x[n]]
    BY DEF FirstIs
<1>2. i \in DOMAIN t /\ t[i] = a /\ \A n \in 1..(i - 1) : n \in 1..Len(x)
    BY <1>1
<1> QED
    BY <1>1, <1>2 DEF FirstIs

LEMMA FirstOfFront ==
    ASSUME NEW x \in Seq(Words), NEW y \in Seq(Words), NEW a, FirstIs(x, a)
    PROVE  FirstIs(x \o y, a)
<1>1. /\ x \o y \in Seq(Words) /\ Len(x) <= Len(x \o y)
      /\ \A n \in 1..Len(x) : (x \o y)[n] = x[n]
    OBVIOUS
<1> QED
    BY <1>1, FirstOfPrefix

LEMMA FirstOfConcat ==
    ASSUME NEW x \in Seq(Words), NEW y \in Seq(Words), NEW a, FirstIs(x \o y, a)
    PROVE  FirstIs(x, a) \/ (~Has(x, "address") /\ FirstIs(y, a))
<1> DEFINE t == x \o y
<1>1. /\ Len(x) \in Nat /\ Len(y) \in Nat /\ DOMAIN t = 1..(Len(x) + Len(y))
      /\ DOMAIN x = 1..Len(x) /\ DOMAIN y = 1..Len(y)
    OBVIOUS
<1>2. \A n \in 1..Len(x) : t[n] = x[n]
    OBVIOUS
<1>3. \A n \in 1..Len(y) : t[Len(x) + n] = y[n]
    OBVIOUS
<1> HIDE DEF t
<1>4. PICK i \in DOMAIN t :
        /\ t[i] = a /\ "address" \in Traits[a]
        /\ \A n \in 1..(i - 1) : "address" \notin Traits[t[n]]
    BY DEF FirstIs, t
<1>5. CASE i <= Len(x)
    <2>1. i \in DOMAIN x /\ \A n \in 1..(i - 1) : n \in 1..Len(x)
        BY <1>1, <1>5
    <2> QED
        BY <1>1, <1>2, <1>4, <2>1 DEF FirstIs
<1>6. CASE ~(i <= Len(x))
    <2> DEFINE j == i - Len(x)
    <2>1. j \in 1..Len(y) /\ Len(x) + j = i /\ \A n \in 1..Len(x) : n \in 1..(i - 1)
        BY <1>1, <1>6
    <2>2. \A n \in 1..(j - 1) : n \in 1..Len(y) /\ Len(x) + n \in 1..(i - 1)
        BY <1>1, <2>1
    <2> HIDE DEF j
    <2>3. ~Has(x, "address")
        BY <1>1, <1>2, <1>4, <2>1 DEF Has
    <2>4. y[j] = a /\ \A n \in 1..(j - 1) : "address" \notin Traits[y[n]]
        BY <1>3, <1>4, <2>1, <2>2
    <2>5. FirstIs(y, a)
        BY <1>1, <1>4, <2>1, <2>4 DEF FirstIs
    <2> QED
        BY <2>3, <2>5
<1> QED
    BY <1>5, <1>6

\* A word that is no address does not change which is the first.
LEMMA FirstWithout ==
    ASSUME NEW u \in Seq(Words), NEW t \in Seq(Words), NEW p, Without(u, t, p),
           "address" \notin Traits[t[p]], NEW a, FirstIs(u, a)
    PROVE  FirstIs(t, a)
<1>1. /\ p \in 1..Len(t) /\ Len(t) = Len(u) + 1
      /\ Len(t) \in Nat /\ Len(u) \in Nat /\ p \in Nat
      /\ DOMAIN t = 1..Len(t) /\ DOMAIN u = 1..Len(u)
    BY DEF Without
<1>2. /\ \A q \in 1..(p - 1) : u[q] = t[q]
      /\ \A q \in p..Len(u) : u[q] = t[q + 1]
    BY DEF Without
<1>3. PICK i \in DOMAIN u :
        /\ u[i] = a /\ "address" \in Traits[a]
        /\ \A n \in 1..(i - 1) : "address" \notin Traits[u[n]]
    BY DEF FirstIs
<1>4. CASE i < p
    <2>1. i \in DOMAIN t /\ i \in 1..(p - 1) /\ \A n \in 1..(i - 1) : n \in 1..(p - 1)
        BY <1>1, <1>4
    <2> QED
        BY <1>2, <1>3, <2>1 DEF FirstIs
<1>5. CASE ~(i < p)
    <2>1. i \in p..Len(u) /\ i + 1 \in DOMAIN t /\ (i + 1) - 1 = i
        BY <1>1, <1>5
    <2>2. ASSUME NEW n \in 1..i
          PROVE  "address" \notin Traits[t[n]]
        <3>1. CASE n < p
            <4>1. n \in 1..(p - 1) /\ n \in 1..(i - 1)
                BY <1>1, <1>5, <3>1
            <4> QED
                BY <1>2, <1>3, <4>1
        <3>2. CASE n > p
            <4> DEFINE q == n - 1
            <4>1. q \in p..Len(u) /\ q \in 1..(i - 1) /\ q + 1 = n
                BY <1>1, <2>1, <3>2
            <4> HIDE DEF q
            <4>2. u[q] = t[q + 1] /\ "address" \notin Traits[u[q]]
                BY <1>2, <1>3, <4>1
            <4> QED
                BY <4>1, <4>2
        <3> QED
            BY <1>1, <3>1, <3>2
    <2>3. t[i + 1] = a
        BY <1>2, <1>3, <2>1
    <2> QED
        BY <1>3, <2>1, <2>2, <2>3 DEF FirstIs
<1> QED
    BY <1>4, <1>5

\* The first address that is scanned is the first of the command.
LEMMA FirstScanned ==
    ASSUME NEW k, k.lines \in Seq(Seq(Words)), k.lines # << >>, k.tool = "bash",
           NEW a, FirstIs(Haystack(k), a)
    PROVE  FirstIs(Text(k.lines), a)
<1> DEFINE text == Text(k.lines)
<1>1. /\ text \in Seq(Words) /\ Target(k) \in Seq(Words)
      /\ ToSet(Target(k)) \subseteq ToSet(text)
    BY TextWords, TargetWords
<1>2. CASE heredoc_authoring_scan(k.lines) = NoScan
    <2>1. Haystack(k) = text \o Target(k)
        BY <1>2 DEF Haystack
    <2>2. FirstIs(text, a) \/ (~Has(text, "address") /\ FirstIs(Target(k), a))
        <3> HIDE DEF text
        <3> QED
            BY <1>1, <2>1, FirstOfConcat
    <2>3. FirstIs(Target(k), a) => Has(text, "address")
        <3> DEFINE target == Target(k)
        <3>1. ToSet(target) \subseteq ToSet(text)
            BY <1>1
        <3> HIDE DEF text, target
        <3>2. FirstIs(target, a) => a \in ToSet(target) /\ "address" \in Traits[a]
            BY ONLY TRUE DEF FirstIs, ToSet
        <3>3. a \in ToSet(text) /\ "address" \in Traits[a] => Has(text, "address")
            BY ONLY TRUE DEF Has, ToSet
        <3> QED
            BY ONLY <3>1, <3>2, <3>3 DEF target
    <2> QED
        BY <2>2, <2>3
<1>3. CASE heredoc_authoring_scan(k.lines) # NoScan
    <2> DEFINE header == k.lines[1]
    <2> DEFINE d == Terminator[header[4]]
    <2>1. /\ header \in Seq(Words) /\ Len(header) = 4
          /\ d \in Words /\ "address" \notin Traits[d]
          /\ heredoc_authoring_scan(k.lines) = header \o <<d>>
          /\ Len(text) > 4 /\ \A x \in 1..4 : text[x] = header[x]
          /\ LastToken(text) = <<d>>
        BY <1>3, HeredocText
    <2>2. Haystack(k) = (header \o <<d>>) \o Target(k)
        BY <1>3, <2>1 DEF Haystack
    <2>3. Target(k) = text \/ Target(k) = <<d>>
        BY <2>1 DEF Target
    <2> HIDE DEF text, header, d
    <2>4. PICK end : end = <<d>>
        OBVIOUS
    <2>5. PICK scan : scan = header \o end
        OBVIOUS
    <2>6. end \in Seq(Words) /\ scan \in Seq(Words) /\ ~FirstIs(end, a)
        BY <2>1, <2>4, <2>5 DEF FirstIs
    <2>7. FirstIs(scan, a) \/ FirstIs(Target(k), a)
        <3>1. Haystack(k) = scan \o Target(k)
            BY <2>2, <2>4, <2>5
        <3> QED
            BY <1>1, <2>6, <3>1, FirstOfConcat
    <2>8. FirstIs(scan, a) => FirstIs(header, a)
        BY <2>1, <2>5, <2>6, FirstOfConcat
    <2>9. FirstIs(header, a) => FirstIs(text, a)
        <3>1. Len(header) <= Len(text) /\ \A x \in 1..Len(header) : text[x] = header[x]
            BY <1>1, <2>1
        <3> QED
            BY <1>1, <2>1, <3>1, FirstOfPrefix
    <2> QED
        BY <2>3, <2>4, <2>6, <2>7, <2>8, <2>9 DEF text
<1> QED
    BY <1>2, <1>3

\* With more words, none of which decides anything, what triggered still does.
Extends(a, b) ==
    /\ a \in Seq(Words) /\ b \in Seq(Words) /\ ToSet(b) \subseteq ToSet(a)
    /\ \A w \in ToSet(a) \ ToSet(b) : ~FirstDecides(w)

LEMMA SameMatch ==
    ASSUME NEW a, NEW b, Extends(a, b), NEW entries,
           \A w \in ToSet(a) \ ToSet(b) : \A i \in 1..Len(entries) : w \notin entries[i].matches
    PROVE  FirstMatch(entries, a) = FirstMatch(entries, b)
<1>1. /\ \A i \in DOMAIN b : \E j \in DOMAIN a : a[j] = b[i]
      /\ \A i \in DOMAIN a : (\E j \in DOMAIN b : b[j] = a[i]) \/ a[i] \in ToSet(a) \ ToSet(b)
    BY DEF Extends, ToSet
<1>2. \A n \in 1..Len(entries) :
        (\E i \in DOMAIN a : a[i] \in entries[n].matches)
            <=> (\E i \in DOMAIN b : b[i] \in entries[n].matches)
    BY <1>1
<1> DEFINE A == {n \in 1..Len(entries) : \E i \in DOMAIN a : a[i] \in entries[n].matches}
<1> DEFINE B == {n \in 1..Len(entries) : \E i \in DOMAIN b : b[i] \in entries[n].matches}
<1>3. A = B
    BY <1>2
<1>4. /\ FirstMatch(entries, a) = (IF A # {} THEN Min(A) ELSE 0)
      /\ FirstMatch(entries, b) = (IF B # {} THEN Min(B) ELSE 0)
    BY DEF FirstMatch, SelectInSeq
<1> HIDE DEF A, B
<1> QED
    BY ONLY <1>3, <1>4

LEMMA TriggersStay ==
    ASSUME NEW a, NEW b, Extends(a, b)
    PROVE  /\ \A trait : Has(b, trait) => Has(a, trait)
           /\ touches_secret_surface(b) => touches_secret_surface(a)
           /\ capital_service_mutation(b) => capital_service_mutation(a)
           /\ is_capital_network_target(b) => is_capital_network_target(a)
<1>1. \A i \in DOMAIN b : \E j \in DOMAIN a : a[j] = b[i]
    BY DEF Extends, ToSet
<1>2. \A trait : Has(b, trait) => Has(a, trait)
    BY <1>1 DEF Has
<1>3. \A s : Mentions(b, s) => Mentions(a, s)
    BY <1>1 DEF Mentions
<1>4. FirstMatch(Surfaces, a) = FirstMatch(Surfaces, b)
    <2>1. \A w \in ToSet(a) \ ToSet(b) : \A i \in 1..Len(Surfaces) : w \notin Surfaces[i].matches
        BY RegistryAssumption DEF Extends, FirstDecides
    <2> QED
        BY <2>1, SameMatch
<1>5. FirstMatch(Hosts, a) = FirstMatch(Hosts, b)
    <2>1. \A w \in ToSet(a) \ ToSet(b) : \A i \in 1..Len(Hosts) : w \notin Hosts[i].matches
        BY RegistryAssumption DEF Extends, FirstDecides
    <2> QED
        BY <2>1, SameMatch
<1>6. \A entry : benign_name_shape_match(a, entry) => benign_name_shape_match(b, entry)
    BY <1>1 DEF benign_name_shape_match
<1>7. touches_secret_surface(b) => touches_secret_surface(a)
    <2>1. vault_surface_entry(a) = vault_surface_entry(b)
        BY <1>4 DEF vault_surface_entry
    <2> QED
        BY <1>1, <1>6, <2>1 DEF touches_secret_surface
<1>8. capital_service_mutation(b) => capital_service_mutation(a)
    BY <1>2, <1>3 DEF capital_service_mutation
<1>9. is_capital_network_target(b) => is_capital_network_target(a)
    BY <1>5 DEF is_capital_network_target
<1> QED
    BY <1>2, <1>7, <1>8, <1>9

\* One more word in a command that is scanned as a whole.
LEMMA NoDilution ==
    ASSUME NEW k \in Calls, k.tool = "bash", heredoc_authoring_scan(k.lines) = NoScan,
           NEW i \in DOMAIN k.lines, NEW j \in DOMAIN k.lines[i],
           NEW e, e = [k EXCEPT !.lines = WithoutWord(@, i, j)],
           "address" \notin Traits[k.lines[i][j]],
           \A w \in ToSet(Haystack(k)) \ ToSet(Haystack(e)) : ~FirstDecides(w),
           classify_capital(k) \in NonCapital
    PROVE  classify_capital(e) \in NonCapital
<1> DEFINE t == Text(k.lines)
<1> DEFINE u == Text(e.lines)
<1> DEFINE a == Haystack(k)
<1> DEFINE b == Haystack(e)
<1>1. k.lines \in Seq(Seq(Words)) /\ k.lines # << >>
    BY CallLines
<1>2. e.tool = "bash" /\ e.lines = WithoutWord(k.lines, i, j)
    BY DEF Calls
<1>3. /\ e.lines \in Seq(Seq(Words)) /\ e.lines # << >>
      /\ \E p : /\ Without(FlattenSeq(e.lines), FlattenSeq(k.lines), p)
               /\ FlattenSeq(k.lines)[p] = k.lines[i][j]
    <2>1. PICK lines, r : lines = k.lines /\ r = [lines EXCEPT ![i] = RemoveAt(@, j)]
        OBVIOUS
    <2>2. lines \in Seq(Seq(Words)) /\ i \in DOMAIN lines /\ j \in DOMAIN lines[i]
        BY <1>1, <2>1
    <2>3. /\ r \in Seq(Seq(Words)) /\ r # << >>
          /\ \E p : Without(FlattenSeq(r), FlattenSeq(lines), p) /\ FlattenSeq(lines)[p] = lines[i][j]
        <3> DEFINE Less(ss, x, y, rr) ==
                /\ rr \in Seq(Seq(Words)) /\ rr # << >>
                /\ \E p : /\ Without(FlattenSeq(rr), FlattenSeq(ss), p)
                         /\ FlattenSeq(ss)[p] = ss[x][y]
        <3>1. \A ss \in Seq(Seq(Words)) : \A x \in DOMAIN ss : \A y \in DOMAIN ss[x] :
                Less(ss, x, y, [ss EXCEPT ![x] = RemoveAt(@, y)])
            BY FlattenWithout
        <3> HIDE DEF Less
        <3>2. Less(lines, i, j, [lines EXCEPT ![i] = RemoveAt(@, j)])
            BY ONLY <2>2, <3>1, Zenon
        <3>3. Less(lines, i, j, r)
            BY ONLY <2>1, <3>2
        <3> QED
            BY <3>3 DEF Less
    <2>4. e.lines = r
        BY <1>2, <2>1 DEF WithoutWord
    <2> QED
        BY ONLY <2>1, <2>3, <2>4
<1>4. PICK p : Without(u, t, p) /\ t[p] = k.lines[i][j]
    BY <1>3 DEF Text
<1>5. /\ t \in Seq(Words) /\ u \in Seq(Words) /\ a \in Seq(Words) /\ b \in Seq(Words)
      /\ Target(k) \in Seq(Words) /\ ToSet(b) \subseteq ToSet(u)
    BY <1>1, <1>2, <1>3, TextWords, TargetWords, HaystackWords
<1>6. a = t \o Target(k)
    BY DEF Haystack
<1>7. ASSUME NEW x, FirstIs(b, x)
      PROVE  FirstIs(a, x)
    <2>1. FirstIs(u, x)
        BY <1>2, <1>3, <1>7, FirstScanned
    <2> HIDE DEF t, u, a, b
    <2>2. "address" \notin Traits[t[p]]
        BY <1>4
    <2>3. FirstIs(t, x)
        BY <1>4, <1>5, <2>1, <2>2, FirstWithout
    <2> QED
        BY <1>5, <1>6, <2>3, FirstOfFront
<1>8. Extends(a, b)
    <2> HIDE DEF t, u, a, b
    <2>1. ToSet(u) \subseteq ToSet(t)
        BY <1>4, <1>5, WithoutElements DEF ToSet
    <2>2. ToSet(t) \subseteq ToSet(a)
        BY <1>5, <1>6, ConcatElements
    <2> QED
        BY <1>5, <2>1, <2>2 DEF Extends, a, b
<1> HIDE DEF a, b
<1>9. references_capital_address(b) => references_capital_address(a)
    BY <1>5, <1>7, <1>8, FirstAddress, TriggersStay
<1>10. /\ ~touches_secret_surface(a) /\ ~capital_service_mutation(a)
       /\ ~(Has(a, "http-mutation") /\ is_capital_network_target(a))
       /\ ~(Has(a, "transfer") /\ references_capital_address(a))
    BY DEF classify_capital, NonCapital, a
<1>11. /\ ~touches_secret_surface(b) /\ ~capital_service_mutation(b)
       /\ ~(Has(b, "http-mutation") /\ is_capital_network_target(b))
       /\ ~(Has(b, "transfer") /\ references_capital_address(b))
    BY <1>8, <1>9, <1>10, TriggersStay
<1> QED
    BY <1>2, <1>11 DEF classify_capital, NonCapital, b

----------------------------------------------------------------------------
\* What holds of the call, of its classification and of the binding.
CInv ==
    /\ TypeOK
    /\ c # None => c = classify_tool_call(call)
    /\ LabelIsOfNearestRepo
    /\ bound \in Repos => Mentioned(services, Text(call.lines), bound)

LEMMA InitCInv ==
    ASSUME Registered, Init
    PROVE  CInv
    BY ClassifierAssumption DEF CInv, TypeOK, Init, LabelIsOfNearestRepo

\* A call is always classified alike: the registry does not change.
LEMMA SameClass ==
    ASSUME UNCHANGED <<call, cwd, services, repos>>
    PROVE  classify_tool_call(call)' = classify_tool_call(call)
<1>1. \A text : capital_service_mutation(text)' = capital_service_mutation(text)
    BY DEF capital_service_mutation
<1>2. classify_capital(call)' = classify_capital(call)
    BY <1>1 DEF classify_capital
<1> QED
    BY <1>2 DEF classify_tool_call

LEMMA ClassifyStep ==
    ASSUME CInv, Classify
    PROVE  CInv'
<1>1. /\ c' = classify_tool_call(call) /\ UNCHANGED <<call, cwd, services, repos, bound>>
      /\ call \in Calls /\ Registered
    BY DEF Classify, registered, CInv, TypeOK
<1> DEFINE reason == classify_capital(call)
<1>2. /\ c'.is_capital = (reason \notin NonCapital) /\ c'.capital_reason = reason
      /\ c'.is_read_only = (is_read_only(call) /\ reason # "capital-secret-surface")
      /\ c'.repo_id = classify_path(repos, cwd) /\ c'.target = Target(call)
    BY <1>1 DEF classify_tool_call
<1>3. reason \in CapitalReasons \cup NonCapital
    BY DEF classify_capital, CapitalReasons, NonCapital
<1> HIDE DEF reason
<1>4. c'.capital_reason = "capital-secret-surface" => Gated'
    BY <1>2 DEF Gated, NonCapital
<1>5. TypeOK'
    BY <1>1, <1>2, <1>3, <1>4 DEF CInv, TypeOK, Registered
<1>6. LabelIsOfNearestRepo'
    <2> DEFINE above == {i \in DOMAIN repos : IsPrefix(repos[i].path, cwd)}
    <2>1. /\ classify_path(repos, cwd) = NoLabel <=> above = {}
          /\ \A i \in above : \E j \in above :
                repos[j].id = classify_path(repos, cwd)
                    /\ IsPrefix(repos[i].path, repos[j].path)
        BY <1>1, NearestPath DEF Registered
    <2>2. /\ c'.repo_id = NoLabel <=> above = {}
          /\ \A i \in above : \/ repos[i].id = c'.repo_id
                             \/ \E j \in above : /\ repos[j].id = c'.repo_id
                                                 /\ IsPrefix(repos[i].path, repos[j].path)
        <3> HIDE DEF above
        <3> QED
            BY <1>2, <2>1
    <2> QED
        BY <1>1, <2>2 DEF LabelIsOfNearestRepo
<1>7. bound' \in Repos => Mentioned(services, Text(call.lines), bound)'
    BY <1>1 DEF CInv, Mentioned, Mentions
<1>8. c' = classify_tool_call(call)'
    BY <1>1, SameClass
<1> QED
    BY <1>5, <1>6, <1>7, <1>8 DEF CInv

LEMMA BindServiceStep ==
    ASSUME CInv, BindService
    PROVE  CInv'
<1> DEFINE text == Text(call.lines)
<1> DEFINE name == service_name_for_classification
<1> DEFINE repo == repo_for_service(services, name)
<1>1. /\ c # None /\ bound' = (IF repo = NoRepo THEN "refused" ELSE repo)
      /\ UNCHANGED <<call, cwd, services, repos, c>> /\ call \in Calls
      /\ services \in Seq(Services) /\ c.target = Target(call)
    BY DEF BindService, registered, CInv, TypeOK, Registered, classify_tool_call
<1>2. \/ name = Target(call)
      \/ \E i \in DOMAIN services : /\ services[i].name # NoText
                                   /\ Mentions(text, services[i].name)
                                   /\ name = <<services[i].name>>
    <2> DEFINE I == {i \in 1..Len(services) : services[i].name # NoText
                                               /\ Mentions(text, services[i].name)}
    <2>1. SelectInSeq(services, LAMBDA s : s.name # NoText /\ Mentions(text, s.name)) =
            IF I # {} THEN Min(I) ELSE 0
        BY DEF SelectInSeq
    <2>2. I # {} => Min(I) \in I
        <3>1. I \in SUBSET Nat
            OBVIOUS
        <3> HIDE DEF I
        <3> QED
            BY <3>1, MinIsIn
    <2>3. CASE I = {}
        <3>1. name = c.target
            BY <2>1, <2>3 DEF service_name_for_classification
        <3> QED
            BY <1>1, <3>1
    <2>4. CASE I # {}
        <3>1. Min(I) \in DOMAIN services /\ Min(I) # 0
              /\ services[Min(I)].name # NoText /\ Mentions(text, services[Min(I)].name)
            BY <1>1, <2>2, <2>4
        <3>2. name = <<services[Min(I)].name>>
            <4> HIDE DEF I
            <4> QED
                BY <2>1, <2>4, <3>1 DEF service_name_for_classification
        <3> QED
            BY <3>1, <3>2
    <2> QED
        BY <2>3, <2>4
<1>3. name \in Seq(Words) /\ \A i \in DOMAIN name : Mentions(text, name[i])
    <2> HIDE DEF name
    <2> QED
        BY <1>1, <1>2, NameIsMentioned
<1>4. repo # NoRepo => Mentioned(services, text, repo)
    <2>1. text \in Seq(Words)
        BY <1>1, CallLines, TextWords
    <2> HIDE DEF name, text
    <2> QED
        BY <1>1, <1>3, <2>1, ServiceIsMentioned
<1>5. repo # NoRepo => repo \in Repos
    <2> HIDE DEF name, repo
    <2>1. SUFFICES ASSUME repo # NoRepo PROVE repo \in Repos
        OBVIOUS
    <2>2. PICK i \in DOMAIN services : services[i].repo = repo
        BY <1>4, <2>1 DEF Mentioned
    <2>3. services[i] \in Services
        BY <1>1
    <2> QED
        BY <2>1, <2>2, <2>3 DEF Services
<1> HIDE DEF repo, name
<1>6. bound' \in Repos \cup {"refused"}
    BY <1>1, <1>5
<1>7. bound' \in Repos => Mentioned(services, text, bound')
    BY <1>1, <1>4, ClassifierAssumption
<1>8. bound' \in Repos => Mentioned(services, Text(call.lines), bound)'
    BY <1>1, <1>7 DEF Mentioned, Mentions
<1>9. TypeOK' /\ LabelIsOfNearestRepo'
    BY <1>1, <1>6 DEF CInv, TypeOK, Registered, Gated, LabelIsOfNearestRepo
<1>10. c' = classify_tool_call(call)'
    BY <1>1, SameClass DEF CInv
<1> QED
    BY <1>1, <1>8, <1>9, <1>10 DEF CInv

LEMMA BindDirectoryStep ==
    ASSUME CInv, BindDirectory
    PROVE  CInv'
<1>1. bound' = "cwd" /\ UNCHANGED <<call, cwd, services, repos, c>>
    BY DEF BindDirectory, registered
<1>2. c # None => c' = classify_tool_call(call)'
    BY <1>1, SameClass DEF CInv
<1> QED
    BY <1>1, <1>2, ClassifierAssumption
        DEF CInv, TypeOK, Registered, Gated, LabelIsOfNearestRepo

\* The invariant of the classifier.
THEOREM ClassifierInvariance == Spec => []CInv
<1>1. CInv /\ [Next]_vars => CInv'
    <2>1. CASE UNCHANGED vars
        <3>1. UNCHANGED <<call, cwd, services, repos, c, bound>>
            BY <2>1 DEF vars
        <3>2. c # None /\ CInv => c' = classify_tool_call(call)'
            BY <3>1, SameClass DEF CInv
        <3> QED
            BY <3>1, <3>2
                DEF CInv, TypeOK, Registered, Gated, LabelIsOfNearestRepo, Mentioned, Mentions
    <2> QED
        BY <2>1, ClassifyStep, BindServiceStep, BindDirectoryStep DEF Next
<1> QED
    BY <1>1, InitCInv, PTL DEF Spec

\* Types, and that a call that touches a secret always needs an intent
\* (classifier.py:97-110).
THEOREM ClassifierTypeCorrect == Spec => []TypeOK
<1>1. CInv => TypeOK
    BY DEF CInv
<1> QED
    BY <1>1, ClassifierInvariance, PTL

\* No line that the shell runs is left out of the scan (classifier.py:243-248, 275-338).
THEOREM RunLinesAreScanned == Spec => []NothingRunIsUnscanned
<1>1. CInv => NothingRunIsUnscanned
    BY CallLines, RunIsScanned DEF CInv, TypeOK, NothingRunIsUnscanned
<1> QED
    BY <1>1, ClassifierInvariance, PTL

\* A run line that mutates a capital service needs an intent
\* (classifier.py:87-110, 189-219, 222-340).
THEOREM MutationsNeedAnIntent == Spec => []MutationsAreGated
<1>1. CInv => MutationsAreGated
    <2> SUFFICES ASSUME CInv, c # None, call.tool = "bash",
                        NEW i \in RunLines(call.lines), MutatesCapitalService(call.lines[i])
                 PROVE  Gated
        BY DEF MutationsAreGated
    <2>1. call \in Calls /\ Registered /\ c = classify_tool_call(call)
        BY DEF CInv, TypeOK
    <2>2. classify_capital(call) \in {"capital-secret-surface", "capital-service-mutation"}
        BY <2>1, MutationIsCapital
    <2>3. ~is_read_only(call)
        BY <2>1, MutationIsNoRead
    <2> QED
        BY <2>1, <2>2, <2>3 DEF classify_tool_call, Gated, NonCapital
<1> QED
    BY <1>1, ClassifierInvariance, PTL

\* What a recognised heredoc writes does not matter (classifier.py:222-277, 275-326).
THEOREM AuthoringIsNotGated == Spec => []AuthoringIsFree
<1>1. CInv => AuthoringIsFree
    BY TextIsFree DEF CInv, TypeOK, AuthoringIsFree, classify_tool_call
<1> QED
    BY <1>1, ClassifierInvariance, PTL

\* No word takes a capital command out of the triggers
\* (classifier.py:222-277, 341-412).
THEOREM NoWordHelps == Spec => []NoWordDilutes
<1>1. CInv => NoWordDilutes
    <2> SUFFICES ASSUME CInv, c # None, call.tool = "bash", ~c.is_capital,
                        heredoc_authoring_scan(call.lines) = NoScan,
                        NEW i \in DOMAIN call.lines, NEW j \in DOMAIN call.lines[i],
                        NEW shorter, shorter = [call EXCEPT !.lines = WithoutWord(@, i, j)],
                        "address" \notin Traits[call.lines[i][j]],
                        \A w \in ToSet(Haystack(call)) \ ToSet(Haystack(shorter)) :
                            ~FirstDecides(w)
                 PROVE  classify_capital(shorter) \in NonCapital
        BY DEF NoWordDilutes
    <2>1. call \in Calls /\ c = classify_tool_call(call)
        BY DEF CInv, TypeOK
    <2>2. classify_capital(call) \in NonCapital
        BY <2>1 DEF classify_tool_call
    <2> QED
        BY <2>1, <2>2, NoDilution
<1> QED
    BY <1>1, ClassifierInvariance, PTL

\* The state that is signed is of a capital service the command mentions
\* (request_capital_approval.py:65-99).
THEOREM BoundRepoIsMentioned == Spec => []BoundRepoIsOfAMentionedService
<1>1. CInv => BoundRepoIsOfAMentionedService
    BY DEF CInv, Mentioned, BoundRepoIsOfAMentionedService
<1> QED
    BY <1>1, ClassifierInvariance, PTL

\* The repo_id of a call is that of the nearest registered path (registry.py:43-58).
THEOREM LabelIsNearest == Spec => []LabelIsOfNearestRepo
<1>1. CInv => LabelIsOfNearestRepo
    BY DEF CInv
<1> QED
    BY <1>1, ClassifierInvariance, PTL
=============================================================================
