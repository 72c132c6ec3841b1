------------------------------ MODULE LspTypes -------------------------------
(***************************************************************************)
(* The C++ types of langsvr/lsp as terms, one definition per type.         *)
(*                                                                         *)
(* The overloads of Decode() and Encode() in src/lsp/lsp.cc are written    *)
(* out by the generator from one template, type by type: a type is here    *)
(* the data its overloads are made of (enumerators and their JSON values,  *)
(* properties in order with their types, base structures), and Codec.tla   *)
(* holds the two functions once.  A reference is by name, since the types  *)
(* are recursive: LSPAny, SelectionRange and others hold themselves.       *)
(*                                                                         *)
(* Every term is a tuple that starts with its form, so that terms of any   *)
(* two forms compare.                                                      *)
(***************************************************************************)
EXTENDS Integers, Sequences

(* primitives.h: DocumentUri and Uri are std::string like String *)
Null == <<"null">>
Boolean == <<"boolean">>
Integer == <<"integer">>
Uinteger == <<"uinteger">>
Decimal == <<"decimal">>
String == <<"string">>
DocumentUri == String
Uri == String

Vector(t) == <<"vector", t>>
Map(t) == <<"map", t>>
Tuple(ts) == <<"tuple", ts>>
OneOf(ts) == <<"oneof", ts>>
Enum(t, values) == <<"enum", t, values>>
Ref(name) == <<"ref", name>>

(* A property of a structure: its JSON name, type, and whether it may be   *)
(* left out.                                                               *)
Req(name, t) == [name |-> name, type |-> t, optional |-> FALSE]
Opt(name, t) == [name |-> name, type |-> t, optional |-> TRUE]

(* A structure: the names of its bases in order, its own properties, and   *)
(* the string its "kind" member must hold (NoKind when it has none).       *)
NoKind == ""
Kinded(kind, bases, props) == <<"struct", [kind |-> kind, bases |-> bases, props |-> props]>>
Derived(bases, props) == Kinded(NoKind, bases, props)
Struct(props) == Derived(<<>>, props)

-----------------------------------------------------------------------------
(* Type aliases.  LSPAny is a structure derived from its OneOf. *)

NotebookDocumentFilter ==
    OneOf(<<Ref("NotebookDocumentFilterNotebookType"), Ref("NotebookDocumentFilterScheme"),
            Ref("NotebookDocumentFilterPattern")>>)
Pattern == String
TextDocumentFilter == OneOf(<<Ref("TextDocumentFilterLanguage"), Ref("TextDocumentFilterScheme"),
                              Ref("TextDocumentFilterPattern")>>)
GlobPattern == OneOf(<<Ref("Pattern"), Ref("RelativePattern")>>)
LSPObject == Map(Ref("LSPAny"))
LSPArray == Vector(Ref("LSPAny"))
DocumentFilter == OneOf(<<Ref("TextDocumentFilter"), Ref("NotebookCellTextDocumentFilter")>>)
MarkedString == OneOf(<<String, Ref("MarkedStringWithLanguage")>>)
TextDocumentContentChangeEvent ==
    OneOf(<<Ref("TextDocumentContentChangePartial"),
            Ref("TextDocumentContentChangeWholeDocument")>>)
WorkspaceDocumentDiagnosticReport ==
    OneOf(<<Ref("WorkspaceFullDocumentDiagnosticReport"),
            Ref("WorkspaceUnchangedDocumentDiagnosticReport")>>)
ChangeAnnotationIdentifier == String
ProgressToken == OneOf(<<Integer, String>>)
DocumentSelector == Vector(Ref("DocumentFilter"))
PrepareRenameResult ==
    OneOf(<<Ref("Range"), Ref("PrepareRenamePlaceholder"), Ref("PrepareRenameDefaultBehavior")>>)
DocumentDiagnosticReport ==
    OneOf(<<Ref("RelatedFullDocumentDiagnosticReport"),
            Ref("RelatedUnchangedDocumentDiagnosticReport")>>)
InlineValue == OneOf(<<Ref("InlineValueText"), Ref("InlineValueVariableLookup"),
                       Ref("InlineValueEvaluatableExpression")>>)
DeclarationLink == Ref("LocationLink")
Declaration == OneOf(<<Ref("Location"), Vector(Ref("Location"))>>)
DefinitionLink == Ref("LocationLink")
Definition == OneOf(<<Ref("Location"), Vector(Ref("Location"))>>)
LSPAny == OneOf(<<Ref("LSPObject"), Ref("LSPArray"), String, Integer, Uinteger, Decimal, Boolean,
                  Null>>)

Aliases == [
    NotebookDocumentFilter |-> NotebookDocumentFilter, Pattern |-> Pattern,
    TextDocumentFilter |-> TextDocumentFilter, GlobPattern |-> GlobPattern,
    LSPObject |-> LSPObject, LSPArray |-> LSPArray, DocumentFilter |-> DocumentFilter,
    MarkedString |-> MarkedString,
    TextDocumentContentChangeEvent |-> TextDocumentContentChangeEvent,
    WorkspaceDocumentDiagnosticReport |-> WorkspaceDocumentDiagnosticReport,
    ChangeAnnotationIdentifier |-> ChangeAnnotationIdentifier, ProgressToken |-> ProgressToken,
    DocumentSelector |-> DocumentSelector, PrepareRenameResult |-> PrepareRenameResult,
    DocumentDiagnosticReport |-> DocumentDiagnosticReport, InlineValue |-> InlineValue,
    DeclarationLink |-> DeclarationLink, Declaration |-> Declaration,
    DefinitionLink |-> DefinitionLink, Definition |-> Definition, LSPAny |-> LSPAny]

-----------------------------------------------------------------------------
(* Enumerations: the JSON value of each enumerator, in order. *)

SemanticTokenTypes == Enum(String,
                           <<"namespace", "type", "class", "enum", "interface", "struct",
                             "typeParameter", "parameter", "variable", "property", "enumMember",
                             "event", "function", "method", "macro", "keyword", "modifier",
                             "comment", "string", "number", "regexp", "operator", "decorator">>)
SemanticTokenModifiers ==
    Enum(String,
         <<"declaration", "definition", "readonly", "static", "deprecated", "abstract", "async",
           "modification", "documentation", "defaultLibrary">>)
DocumentDiagnosticReportKind == Enum(String, <<"full", "unchanged">>)
ErrorCodes == Enum(Integer, <<-32700, -32600, -32601, -32602, -32603, -32002, -32001>>)
LSPErrorCodes == Enum(Integer, <<-32803, -32802, -32801, -32800>>)
FoldingRangeKind == Enum(String, <<"comment", "imports", "region">>)
SymbolKind == Enum(Uinteger,
                   <<1, 2, 3, 4, 5, 6, 7, 8, 9, 10, 11, 12, 13, 14, 15, 16, 17, 18, 19, 20, 21,
                     22, 23, 24, 25, 26>>)
SymbolTag == Enum(Uinteger, <<1>>)
UniquenessLevel == Enum(String, <<"document", "project", "group", "scheme", "global">>)
MonikerKind == Enum(String, <<"import", "export", "local">>)
InlayHintKind == Enum(Uinteger, <<1, 2>>)
MessageType == Enum(Uinteger, <<1, 2, 3, 4, 5>>)
TextDocumentSyncKind == Enum(Uinteger, <<0, 1, 2>>)
TextDocumentSaveReason == Enum(Uinteger, <<1, 2, 3>>)
CompletionItemKind == Enum(Uinteger,
                           <<1, 2, 3, 4, 5, 6, 7, 8, 9, 10, 11, 12, 13, 14, 15, 16, 17, 18, 19,
                             20, 21, 22, 23, 24, 25>>)
CompletionItemTag == Enum(Uinteger, <<1>>)
InsertTextFormat == Enum(Uinteger, <<1, 2>>)
InsertTextMode == Enum(Uinteger, <<1, 2>>)
DocumentHighlightKind == Enum(Uinteger, <<1, 2, 3>>)
CodeActionKind == Enum(String,
                       <<"", "quickfix", "refactor", "refactor.extract", "refactor.inline",
                         "refactor.rewrite", "source", "source.organizeImports", "source.fixAll">>)
TraceValues == Enum(String, <<"off", "messages", "verbose">>)
MarkupKind == Enum(String, <<"plaintext", "markdown">>)
InlineCompletionTriggerKind == Enum(Uinteger, <<0, 1>>)
PositionEncodingKind == Enum(String, <<"utf-8", "utf-16", "utf-32">>)
FileChangeType == Enum(Uinteger, <<1, 2, 3>>)
WatchKind == Enum(Uinteger, <<1, 2, 4>>)
DiagnosticSeverity == Enum(Uinteger, <<1, 2, 3, 4>>)
DiagnosticTag == Enum(Uinteger, <<1, 2>>)
CompletionTriggerKind == Enum(Uinteger, <<1, 2, 3>>)
SignatureHelpTriggerKind == Enum(Uinteger, <<1, 2, 3>>)
CodeActionTriggerKind == Enum(Uinteger, <<1, 2>>)
FileOperationPatternKind == Enum(String, <<"file", "folder">>)
NotebookCellKind == Enum(Uinteger, <<1, 2>>)
ResourceOperationKind == Enum(String, <<"create", "rename", "delete">>)
FailureHandlingKind == Enum(String, <<"abort", "transactional", "textOnlyTransactional", "undo">>)
PrepareSupportDefaultBehavior == Enum(Uinteger, <<1>>)
TokenFormat == Enum(String, <<"relative">>)

Enumerations == [
    SemanticTokenTypes |-> SemanticTokenTypes, SemanticTokenModifiers |-> SemanticTokenModifiers,
    DocumentDiagnosticReportKind |-> DocumentDiagnosticReportKind, ErrorCodes |-> ErrorCodes,
    LSPErrorCodes |-> LSPErrorCodes, FoldingRangeKind |-> FoldingRangeKind,
    SymbolKind |-> SymbolKind, SymbolTag |-> SymbolTag, UniquenessLevel |-> UniquenessLevel,
    MonikerKind |-> MonikerKind, InlayHintKind |-> InlayHintKind, MessageType |-> MessageType,
    TextDocumentSyncKind |-> TextDocumentSyncKind,
    TextDocumentSaveReason |-> TextDocumentSaveReason, CompletionItemKind |-> CompletionItemKind,
    CompletionItemTag |-> CompletionItemTag, InsertTextFormat |-> InsertTextFormat,
    InsertTextMode |-> InsertTextMode, DocumentHighlightKind |-> DocumentHighlightKind,
    CodeActionKind |-> CodeActionKind, TraceValues |-> TraceValues, MarkupKind |-> MarkupKind,
    InlineCompletionTriggerKind |-> InlineCompletionTriggerKind,
    PositionEncodingKind |-> PositionEncodingKind, FileChangeType |-> FileChangeType,
    WatchKind |-> WatchKind, DiagnosticSeverity |-> DiagnosticSeverity,
    DiagnosticTag |-> DiagnosticTag, CompletionTriggerKind |-> CompletionTriggerKind,
    SignatureHelpTriggerKind |-> SignatureHelpTriggerKind,
    CodeActionTriggerKind |-> CodeActionTriggerKind,
    FileOperationPatternKind |-> FileOperationPatternKind, NotebookCellKind |-> NotebookCellKind,
    ResourceOperationKind |-> ResourceOperationKind, FailureHandlingKind |-> FailureHandlingKind,
    PrepareSupportDefaultBehavior |-> PrepareSupportDefaultBehavior, TokenFormat |-> TokenFormat]

===============================================================================
