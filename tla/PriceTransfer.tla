--------------------------- MODULE PriceTransfer ---------------------------
(***************************************************************************)
(* The table of price rules: edits, deletion, export to a file (XML or      *)
(* JSON) and import of a file.  Prices are small numbers; dimensions and    *)
(* segments are kept apart only as far as export and import do so.          *)
(***************************************************************************)
EXTENDS Integers, Sequences, FiniteSets, FiniteSetsExt, SequencesExt

CONSTANTS
    RuleChoices,    \* rules that administrators enter
    HandFiles,      \* files written by hand: sequences of items
    PriceChannels,  \* names of channels
    MaxPriceSteps   \* bound on the operations

VARIABLES
    priceTable,     \* price_rules
    priceChannels,  \* upstream_ids of the snapshot
    priceEdit,      \* a rule that update_rule has read, or NoRule
    priceFile,      \* an exported file, and the table it was made of (ghost)
    imported,       \* ghost: the last import
    priceSteps      \* number of operations

transferVars == <<priceTable, priceChannels, priceEdit, priceFile, imported, priceSteps>>

TokenColumns == {"token_in", "token_out", "token_cache_write", "token_cache_read"}
MediaUnits == {"image", "video_second"}
NoPrice == -1
Dimensions == {"", "text", "number"}
ContextBases == {"prompt_tokens", "total_tokens"}
SegmentKinds == {"none", "plain", "loose"}  \* loose: a JSON array that is not a list of segments
Scalar == "scalar"      \* in a file: JSON that is no object (dimensions) or no array (segments)

\* Rows of price_rules, and items of a file
Rules ==
    [channel : STRING, unit : TokenColumns \cup MediaUnits, currency : STRING, dim : Dimensions, price : Int,
     segments : SegmentKinds, basis : ContextBases, enabled : BOOLEAN]
Items ==
    [channel : STRING, currency : STRING, column : [TokenColumns -> [price : Int, segments : SegmentKinds \cup {Scalar}]],
     media : Seq([unit : MediaUnits, price : Int, dim : Dimensions \cup {Scalar}, segments : SegmentKinds \cup {Scalar}])]

ASSUME TransferAssumption ==
    /\ MaxPriceSteps \in Nat
    /\ RuleChoices \subseteq Rules
    /\ \A items \in HandFiles : items \in Seq(Items)

NoRule == [unit |-> "none"]
NoFile == [format |-> "none", items |-> <<>>, of |-> {}]
NoImport == [file |-> <<>>, good |-> {}, before |-> {}, after |-> {}, dry |-> TRUE, of |-> {}, format |-> "none"]

RuleKey(r) == <<r.channel, r.unit, r.currency, r.dim>>

TransferInit ==
    /\ priceTable = {} /\ priceChannels = PriceChannels /\ priceEdit = NoRule
    /\ priceFile = NoFile /\ imported = NoImport /\ priceSteps = 0

PriceStep == priceSteps < MaxPriceSteps /\ priceSteps' = priceSteps + 1

-----------------------------------------------------------------------------
(* Edits *)

\* validate_fields and the unique key
Acceptable(r, others) ==
    /\ r.price >= 0 /\ r.currency \in {"CNY", "USD"} /\ r.basis \in ContextBases
    /\ r.channel \in priceChannels
    /\ \A o \in others : RuleKey(o) # RuleKey(r)

create_rule(r) ==
    /\ PriceStep /\ Acceptable(r, priceTable)
    /\ priceTable' = priceTable \cup {r}
    /\ UNCHANGED <<priceChannels, priceEdit, priceFile, imported>>

\* update_rule reads the rule,
fetch_rule(r) ==
    /\ PriceStep /\ priceEdit = NoRule /\ priceEdit' = r
    /\ UNCHANGED <<priceTable, priceChannels, priceFile, imported>>

\* and writes every column, if the rule is still there.
update_rule(price, enabled) ==
    /\ priceEdit # NoRule /\ priceEdit' = NoRule
    /\ LET row == {o \in priceTable : RuleKey(o) = RuleKey(priceEdit)}
       IN priceTable' = IF row = {} THEN priceTable
                        ELSE (priceTable \ row) \cup {[priceEdit EXCEPT !.price = price, !.enabled = enabled]}
    /\ UNCHANGED <<priceChannels, priceFile, imported, priceSteps>>

delete_rule(r) ==
    /\ PriceStep /\ priceTable' = priceTable \ {r}
    /\ UNCHANGED <<priceChannels, priceEdit, priceFile, imported>>

\* A channel is deleted and its rules with it (ON DELETE CASCADE).
DropChannel(c) ==
    /\ PriceStep /\ priceChannels' = priceChannels \ {c}
    /\ priceTable' = {r \in priceTable : r.channel # c}
    /\ UNCHANGED <<priceEdit, priceFile, imported>>

-----------------------------------------------------------------------------
(* Export *)

\* Rows are read in the order of dimension_key.
DimOrder == <<"", "text", "number">>
InOrder(rows) == FlattenSeq([i \in 1 .. 3 |-> SetToSeq({r \in rows : r.dim = DimOrder[i]})])
PriceAt(s) == IF s = <<>> THEN NoPrice ELSE Last(s).price
SegmentsAt(s) ==
    LET i == SelectLastInSeq(s, LAMBDA r : r.segments # "none") IN IF i = 0 THEN "none" ELSE s[i].segments

\* One item per channel and currency: a column for each token unit, which has
\* the last row's price and the last segments, and a list for each media unit.
build_export_item(rows, channel, currency) ==
    LET of(u) == InOrder({r \in rows : r.channel = channel /\ r.currency = currency /\ r.unit = u})
    IN [channel |-> channel, currency |-> currency,
        column |-> [u \in TokenColumns |->
            [price |-> PriceAt(of(u)), segments |-> SegmentsAt(of(u))]],
        media |-> FlattenSeq([i \in 1 .. 2 |->
            LET u == <<"image", "video_second">>[i]
            IN [j \in DOMAIN of(u) |-> [unit |-> u, price |-> of(u)[j].price, dim |-> of(u)[j].dim, segments |-> of(u)[j].segments]]])]

build_export_items(rows) ==
    SetToSeq({build_export_item(rows, k[1], k[2]) : k \in {<<r.channel, r.currency>> : r \in rows}})

\* What comes back from XML: dimensions are text, and segments that are not
\* segments are left out.
XmlSegments(s) == IF s = "loose" THEN "none" ELSE s
XmlDimension(d) == IF d = "number" THEN "text" ELSE d
XmlMedia(x) == [x EXCEPT !.dim = XmlDimension(@), !.segments = XmlSegments(@)]
XmlColumn(x) == [x EXCEPT !.segments = XmlSegments(@)]
XmlItem(item) ==
    [item EXCEPT !.column = [u \in TokenColumns |-> XmlColumn(item.column[u])],
                 !.media = [i \in DOMAIN item.media |-> XmlMedia(item.media[i])]]

export_rules(format) ==
    /\ PriceStep /\ priceTable # {}
    /\ LET items == build_export_items(priceTable)
       IN priceFile' = [format |-> format, of |-> priceTable,
                        items |-> IF format = "xml" THEN [i \in DOMAIN items |-> XmlItem(items[i])] ELSE items]
    /\ UNCHANGED <<priceTable, priceChannels, priceEdit, imported>>

-----------------------------------------------------------------------------
(* Import *)

ImportRow(item, unit, price, dim, segments) ==
    [channel |-> item.channel, unit |-> unit, currency |-> item.currency, dim |-> dim, price |-> price, segments |-> segments]

\* expand_item: a row for each column that has a price, and for each media rule.
expand_item(item) ==
    LET columns == SetToSeq({u \in TokenColumns : item.column[u].price # NoPrice})
    IN [i \in DOMAIN columns |-> ImportRow(item, columns[i], item.column[columns[i]].price, "", item.column[columns[i]].segments)]
       \o [i \in DOMAIN item.media |->
            ImportRow(item, item.media[i].unit, item.media[i].price, item.media[i].dim, item.media[i].segments)]

validate_row(row) ==
    row.price >= 0 /\ row.currency \in {"CNY", "USD"} /\ row.dim # Scalar /\ row.segments # Scalar

\* Known channel, some row, and no bad row: otherwise the whole item fails.
ItemOK(item) ==
    /\ item.channel \in priceChannels /\ expand_item(item) # <<>>
    /\ \A i \in DOMAIN expand_item(item) : validate_row(expand_item(item)[i])

KeysOf(item) == {RuleKey(row) : row \in ToSet(expand_item(item))}

\* An item whose keys were all in items before it is skipped.
analyze_import(items) ==
    {i \in DOMAIN items :
        /\ ItemOK(items[i])
        /\ ~(KeysOf(items[i]) \subseteq UNION {KeysOf(items[j]) : j \in {k \in 1 .. i - 1 : ItemOK(items[k])}})}

RowsToStore(items) ==
    FlattenSeq([i \in DOMAIN items |->
        IF i \in analyze_import(items) THEN expand_item(items[i]) ELSE <<>>])

\* Bug: a rule that exists is enabled again
Upserted_Enables(rows, row) ==
    {r \in rows : RuleKey(r) # RuleKey(row)} \cup
    {[channel |-> row.channel, unit |-> row.unit, currency |-> row.currency, dim |-> row.dim, price |-> row.price,
      segments |-> row.segments, basis |-> "prompt_tokens", enabled |-> TRUE]}

\* INSERT ... ON CONFLICT DO UPDATE: an existing rule keeps being enabled or not.
Upserted(rows, row) ==
    LET old == {r \in rows : RuleKey(r) = RuleKey(row)}
    IN (rows \ old) \cup
       {[channel |-> row.channel, unit |-> row.unit, currency |-> row.currency, dim |-> row.dim, price |-> row.price,
         segments |-> row.segments, basis |-> "prompt_tokens",
         enabled |-> IF old = {} THEN TRUE ELSE (CHOOSE r \in old : TRUE).enabled]}

\* The rows are written one after the other, in one transaction.
Stored(table, rows) ==
    LET after[n \in 0 .. Len(rows)] == IF n = 0 THEN table ELSE Upserted(after[n - 1], rows[n]) IN after[Len(rows)]

import_rules(file, dry_run) ==
    /\ PriceStep
    /\ priceTable' = IF dry_run THEN priceTable ELSE Stored(priceTable, RowsToStore(file.items))
    /\ imported' = [file |-> file.items, good |-> analyze_import(file.items), before |-> priceTable, after |-> priceTable',
                    dry |-> dry_run, of |-> file.of, format |-> file.format]
    /\ UNCHANGED <<priceChannels, priceEdit, priceFile>>

TransferNext ==
    \/ \E r \in RuleChoices : create_rule(r)
    \/ \E r \in priceTable : fetch_rule(r) \/ delete_rule(r)
    \/ \E price \in {1, 2}, enabled \in BOOLEAN : update_rule(price, enabled)
    \/ \E c \in priceChannels : DropChannel(c)
    \/ \E format \in {"xml", "json"} : export_rules(format)
    \/ \E dry_run \in BOOLEAN : priceFile # NoFile /\ import_rules(priceFile, dry_run)
    \/ \E items \in HandFiles : import_rules([format |-> "hand", items |-> items, of |-> {}], FALSE)

TransferSpec == TransferInit /\ [][TransferNext]_transferVars

-----------------------------------------------------------------------------
TransferTypeOK ==
    /\ priceSteps \in 0 .. MaxPriceSteps /\ priceChannels \subseteq PriceChannels
    /\ \A a, b \in priceTable : RuleKey(a) = RuleKey(b) => a = b
    /\ \A r \in priceTable : r.channel \in priceChannels /\ r.price >= 0

\* A rule that a file can carry: not a token rule next to one with dimensions,
\* no context basis of its own, and in XML no dimension that is not text (or
\* whose text is that of another rule).
Portable(r, rows, format) ==
    LET like == {o \in rows : o # r /\ <<o.channel, o.unit, o.currency>> = <<r.channel, r.unit, r.currency>>}
    IN /\ r.basis = "prompt_tokens"
       /\ r.unit \in TokenColumns => r.dim = "" /\ like = {}
       /\ format = "xml" => r.dim # "number" /\ (r.dim = "text" => ~\E o \in like : o.dim = "number")

\* Segments that are not segments have no effect on a price.
SamePrice(a, b) == [a EXCEPT !.segments = XmlSegments(@)] = [b EXCEPT !.segments = XmlSegments(@)]

\* A file that is exported and imported into the table it was made of leaves
\* every rule it can carry as it was.
RoundTrip ==
    imported.of # {} /\ imported.of = imported.before /\ ~imported.dry =>
        \A r \in imported.before : Portable(r, imported.before, imported.format) => \E s \in imported.after : SamePrice(r, s)

\* After an import the rules that no accepted item names are as before, each
\* rule that one names has the price of such an item, and a trial run changes
\* nothing.  An item that fails has no effect.
ImportHonest ==
    LET ok == {i \in DOMAIN imported.file : i \in imported.good}
        rowsOf(i) == ToSet(expand_item(imported.file[i]))
        named == UNION {KeysOf(imported.file[i]) : i \in ok}
    IN /\ imported.dry => imported.before = imported.after
       /\ {r \in imported.before : RuleKey(r) \notin named} = {r \in imported.after : RuleKey(r) \notin named}
       /\ \A i \in ok : \A row \in rowsOf(i) : row.price >= 0 /\ row.dim # Scalar /\ row.segments # Scalar
       /\ ~imported.dry => \A k \in named : \E r \in imported.after, i \in ok :
            RuleKey(r) = k /\ \E row \in rowsOf(i) : RuleKey(row) = k /\ row.price = r.price

\* Prices survive a file: what it can carry comes back as it was, an import changes what
\* it names and nothing else, and a trial run nothing.
TransferSound == TransferTypeOK /\ RoundTrip /\ ImportHonest

\* "deduplicated within the file": no key is written twice by one import.
\* (Refuted: an item that shares some of its keys with an earlier one.)
WrittenOnce ==
    LET rows == RowsToStore(imported.file)
    IN \A i, j \in DOMAIN rows : RuleKey(rows[i]) = RuleKey(rows[j]) => i = j

\* A file that is imported into the table it was made of changes no price.
\* (Refuted: token rules with dimensions, total_tokens, numbers in XML.)
RoundTripExact ==
    imported.of # {} /\ imported.of = imported.before /\ ~imported.dry =>
        \A r \in imported.before : \E s \in imported.after : SamePrice(r, s)
=============================================================================
