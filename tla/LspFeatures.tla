---------------------------- MODULE LspFeatures -----------------------------
(***************************************************************************)
(* The first structures of src/lsp/lsp.cc, in its order: documents, edits, *)
(* links, progress, hints, diagnostics and notebooks.  Each definition     *)
(* stands for the five functions of that structure: operator==,            *)
(* operator!=, Decode, EncodeMembers and Encode.  A_B is the nested        *)
(* structure A::B.                                                         *)
(***************************************************************************)
EXTENDS LspTypes

TextDocumentIdentifier == Struct(<<Req("uri", DocumentUri)>>)
Position == Struct(<<Req("line", Uinteger), Req("character", Uinteger)>>)
TextDocumentPositionParams ==
    Struct(<<Req("textDocument", Ref("TextDocumentIdentifier")),
             Req("position", Ref("Position"))>>)
ImplementationParams == Derived(<<"TextDocumentPositionParams">>, <<>>)
Range == Struct(<<Req("start", Ref("Position")), Req("end", Ref("Position"))>>)
Location == Struct(<<Req("uri", DocumentUri), Req("range", Ref("Range"))>>)
TextDocumentRegistrationOptions ==
    Struct(<<Req("documentSelector", OneOf(<<Ref("DocumentSelector"), Null>>))>>)
ImplementationOptions == Struct(<<>>)
ImplementationRegistrationOptions ==
    Derived(<<"TextDocumentRegistrationOptions", "ImplementationOptions">>, <<>>)
TypeDefinitionParams == Derived(<<"TextDocumentPositionParams">>, <<>>)
TypeDefinitionOptions == Struct(<<>>)
TypeDefinitionRegistrationOptions ==
    Derived(<<"TextDocumentRegistrationOptions", "TypeDefinitionOptions">>, <<>>)
WorkspaceFolder == Struct(<<Req("uri", Uri), Req("name", String)>>)
WorkspaceFoldersChangeEvent ==
    Struct(<<Req("added", Vector(Ref("WorkspaceFolder"))),
             Req("removed", Vector(Ref("WorkspaceFolder")))>>)
DidChangeWorkspaceFoldersParams == Struct(<<Req("event", Ref("WorkspaceFoldersChangeEvent"))>>)
ConfigurationItem == Struct(<<Opt("scopeUri", Uri), Opt("section", String)>>)
ConfigurationParams == Struct(<<Req("items", Vector(Ref("ConfigurationItem")))>>)
DocumentColorParams == Struct(<<Req("textDocument", Ref("TextDocumentIdentifier"))>>)
Color == Struct(<<Req("red", Decimal), Req("green", Decimal), Req("blue", Decimal),
                  Req("alpha", Decimal)>>)
ColorInformation == Struct(<<Req("range", Ref("Range")), Req("color", Ref("Color"))>>)
DocumentColorOptions == Struct(<<>>)
DocumentColorRegistrationOptions ==
    Derived(<<"TextDocumentRegistrationOptions", "DocumentColorOptions">>, <<>>)
ColorPresentationParams ==
    Struct(<<Req("textDocument", Ref("TextDocumentIdentifier")), Req("color", Ref("Color")),
             Req("range", Ref("Range"))>>)
TextEdit == Struct(<<Req("range", Ref("Range")), Req("newText", String)>>)
ColorPresentation == Struct(<<Req("label", String), Opt("textEdit", Ref("TextEdit")),
                              Opt("additionalTextEdits", Vector(Ref("TextEdit")))>>)
WorkDoneProgressOptions == Struct(<<Opt("workDoneProgress", Boolean)>>)
FoldingRangeParams == Struct(<<Req("textDocument", Ref("TextDocumentIdentifier"))>>)
FoldingRange == Struct(<<Req("startLine", Uinteger), Opt("startCharacter", Uinteger),
                         Req("endLine", Uinteger), Opt("endCharacter", Uinteger),
                         Opt("kind", Ref("FoldingRangeKind")), Opt("collapsedText", String)>>)
FoldingRangeOptions == Struct(<<>>)
FoldingRangeRegistrationOptions ==
    Derived(<<"TextDocumentRegistrationOptions", "FoldingRangeOptions">>, <<>>)
DeclarationParams == Derived(<<"TextDocumentPositionParams">>, <<>>)
DeclarationOptions == Struct(<<>>)
DeclarationRegistrationOptions ==
    Derived(<<"DeclarationOptions", "TextDocumentRegistrationOptions">>, <<>>)
SelectionRangeParams ==
    Struct(<<Req("textDocument", Ref("TextDocumentIdentifier")),
             Req("positions", Vector(Ref("Position")))>>)
SelectionRange == Struct(<<Req("range", Ref("Range")), Opt("parent", Ref("SelectionRange"))>>)
SelectionRangeOptions == Struct(<<>>)
SelectionRangeRegistrationOptions ==
    Derived(<<"SelectionRangeOptions", "TextDocumentRegistrationOptions">>, <<>>)
WorkDoneProgressCreateParams == Struct(<<Req("token", Ref("ProgressToken"))>>)
WorkDoneProgressCancelParams == Struct(<<Req("token", Ref("ProgressToken"))>>)
CallHierarchyPrepareParams == Derived(<<"TextDocumentPositionParams">>, <<>>)
CallHierarchyItem == Struct(<<Req("name", String), Req("kind", Ref("SymbolKind")),
                              Opt("tags", Vector(Ref("SymbolTag"))), Opt("detail", String),
                              Req("uri", DocumentUri), Req("range", Ref("Range")),
                              Req("selectionRange", Ref("Range")), Opt("data", Ref("LSPAny"))>>)
CallHierarchyOptions == Struct(<<>>)
CallHierarchyRegistrationOptions ==
    Derived(<<"TextDocumentRegistrationOptions", "CallHierarchyOptions">>, <<>>)
CallHierarchyIncomingCallsParams == Struct(<<Req("item", Ref("CallHierarchyItem"))>>)
CallHierarchyIncomingCall ==
    Struct(<<Req("from", Ref("CallHierarchyItem")), Req("fromRanges", Vector(Ref("Range")))>>)
CallHierarchyOutgoingCallsParams == Struct(<<Req("item", Ref("CallHierarchyItem"))>>)
CallHierarchyOutgoingCall ==
    Struct(<<Req("to", Ref("CallHierarchyItem")), Req("fromRanges", Vector(Ref("Range")))>>)
SemanticTokensParams == Struct(<<Req("textDocument", Ref("TextDocumentIdentifier"))>>)
SemanticTokens == Struct(<<Opt("resultId", String), Req("data", Vector(Uinteger))>>)
SemanticTokensPartialResult == Struct(<<Req("data", Vector(Uinteger))>>)
SemanticTokensLegend ==
    Struct(<<Req("tokenTypes", Vector(String)), Req("tokenModifiers", Vector(String))>>)
SemanticTokensFullDelta == Struct(<<Opt("delta", Boolean)>>)
SemanticTokensOptions ==
    Struct(<<Req("legend", Ref("SemanticTokensLegend")),
             Opt("range", OneOf(<<Boolean, Ref("SemanticTokensOptions_Range")>>)),
             Opt("full", OneOf(<<Boolean, Ref("SemanticTokensFullDelta")>>))>>)
SemanticTokensOptions_Range == Struct(<<>>)
SemanticTokensRegistrationOptions ==
    Derived(<<"TextDocumentRegistrationOptions", "SemanticTokensOptions">>, <<>>)
SemanticTokensDeltaParams ==
    Struct(<<Req("textDocument", Ref("TextDocumentIdentifier")), Req("previousResultId", String)>>)
SemanticTokensEdit == Struct(<<Req("start", Uinteger), Req("deleteCount", Uinteger),
                               Opt("data", Vector(Uinteger))>>)
SemanticTokensDelta ==
    Struct(<<Opt("resultId", String), Req("edits", Vector(Ref("SemanticTokensEdit")))>>)
SemanticTokensDeltaPartialResult == Struct(<<Req("edits", Vector(Ref("SemanticTokensEdit")))>>)
SemanticTokensRangeParams ==
    Struct(<<Req("textDocument", Ref("TextDocumentIdentifier")), Req("range", Ref("Range"))>>)
ShowDocumentParams == Struct(<<Req("uri", Uri), Opt("external", Boolean),
                               Opt("takeFocus", Boolean), Opt("selection", Ref("Range"))>>)
ShowDocumentResult == Struct(<<Req("success", Boolean)>>)
LinkedEditingRangeParams == Derived(<<"TextDocumentPositionParams">>, <<>>)
LinkedEditingRanges == Struct(<<Req("ranges", Vector(Ref("Range"))), Opt("wordPattern", String)>>)
LinkedEditingRangeOptions == Struct(<<>>)
LinkedEditingRangeRegistrationOptions ==
    Derived(<<"TextDocumentRegistrationOptions", "LinkedEditingRangeOptions">>, <<>>)
FileCreate == Struct(<<Req("uri", String)>>)
CreateFilesParams == Struct(<<Req("files", Vector(Ref("FileCreate")))>>)
ResourceOperation == Struct(<<Req("kind", String),
                              Opt("annotationId", Ref("ChangeAnnotationIdentifier"))>>)
DeleteFileOptions == Struct(<<Opt("recursive", Boolean), Opt("ignoreIfNotExists", Boolean)>>)
DeleteFile == Kinded("delete", <<"ResourceOperation">>,
                     <<Req("uri", DocumentUri), Opt("options", Ref("DeleteFileOptions"))>>)
RenameFileOptions == Struct(<<Opt("overwrite", Boolean), Opt("ignoreIfExists", Boolean)>>)
RenameFile == Kinded("rename", <<"ResourceOperation">>,
                     <<Req("oldUri", DocumentUri), Req("newUri", DocumentUri),
                       Opt("options", Ref("RenameFileOptions"))>>)
CreateFileOptions == Struct(<<Opt("overwrite", Boolean), Opt("ignoreIfExists", Boolean)>>)
CreateFile == Kinded("create", <<"ResourceOperation">>,
                     <<Req("uri", DocumentUri), Opt("options", Ref("CreateFileOptions"))>>)
OptionalVersionedTextDocumentIdentifier ==
    Derived(<<"TextDocumentIdentifier">>, <<Req("version", OneOf(<<Integer, Null>>))>>)
AnnotatedTextEdit == Derived(<<"TextEdit">>,
                             <<Req("annotationId", Ref("ChangeAnnotationIdentifier"))>>)
TextDocumentEdit == Struct(<<Req("textDocument", Ref("OptionalVersionedTextDocumentIdentifier")),
                             Req("edits",
                                 Vector(OneOf(<<Ref("TextEdit"), Ref("AnnotatedTextEdit")>>)))>>)
ChangeAnnotation == Struct(<<Req("label", String), Opt("needsConfirmation", Boolean),
                             Opt("description", String)>>)
WorkspaceEdit == Struct(<<Opt("changes", Map(Vector(Ref("TextEdit")))),
                          Opt("documentChanges",
                              Vector(OneOf(<<Ref("TextDocumentEdit"), Ref("CreateFile"),
                                             Ref("RenameFile"), Ref("DeleteFile")>>))),
                          Opt("changeAnnotations", Map(Ref("ChangeAnnotation")))>>)
FileOperationPatternOptions == Struct(<<Opt("ignoreCase", Boolean)>>)
FileOperationPattern ==
    Struct(<<Req("glob", String), Opt("matches", Ref("FileOperationPatternKind")),
             Opt("options", Ref("FileOperationPatternOptions"))>>)
FileOperationFilter ==
    Struct(<<Opt("scheme", String), Req("pattern", Ref("FileOperationPattern"))>>)
FileOperationRegistrationOptions == Struct(<<Req("filters", Vector(Ref("FileOperationFilter")))>>)
FileRename == Struct(<<Req("oldUri", String), Req("newUri", String)>>)
RenameFilesParams == Struct(<<Req("files", Vector(Ref("FileRename")))>>)
FileDelete == Struct(<<Req("uri", String)>>)
DeleteFilesParams == Struct(<<Req("files", Vector(Ref("FileDelete")))>>)
MonikerParams == Derived(<<"TextDocumentPositionParams">>, <<>>)
Moniker == Struct(<<Req("scheme", String), Req("identifier", String),
                    Req("unique", Ref("UniquenessLevel")), Opt("kind", Ref("MonikerKind"))>>)
MonikerOptions == Struct(<<>>)
MonikerRegistrationOptions ==
    Derived(<<"TextDocumentRegistrationOptions", "MonikerOptions">>, <<>>)
TypeHierarchyPrepareParams == Derived(<<"TextDocumentPositionParams">>, <<>>)
TypeHierarchyItem == Struct(<<Req("name", String), Req("kind", Ref("SymbolKind")),
                              Opt("tags", Vector(Ref("SymbolTag"))), Opt("detail", String),
                              Req("uri", DocumentUri), Req("range", Ref("Range")),
                              Req("selectionRange", Ref("Range")), Opt("data", Ref("LSPAny"))>>)
TypeHierarchyOptions == Struct(<<>>)
TypeHierarchyRegistrationOptions ==
    Derived(<<"TextDocumentRegistrationOptions", "TypeHierarchyOptions">>, <<>>)
TypeHierarchySupertypesParams == Struct(<<Req("item", Ref("TypeHierarchyItem"))>>)
TypeHierarchySubtypesParams == Struct(<<Req("item", Ref("TypeHierarchyItem"))>>)
InlineValueContext == Struct(<<Req("frameId", Integer), Req("stoppedLocation", Ref("Range"))>>)
InlineValueParams == Struct(<<Req("textDocument", Ref("TextDocumentIdentifier")),
                              Req("range", Ref("Range")),
                              Req("context", Ref("InlineValueContext"))>>)
InlineValueOptions == Struct(<<>>)
InlineValueRegistrationOptions ==
    Derived(<<"InlineValueOptions", "TextDocumentRegistrationOptions">>, <<>>)
InlayHintParams == Struct(<<Req("textDocument", Ref("TextDocumentIdentifier")),
                            Req("range", Ref("Range"))>>)
MarkupContent == Struct(<<Req("kind", Ref("MarkupKind")), Req("value", String)>>)
Command == Struct(<<Req("title", String), Req("command", String),
                    Opt("arguments", Vector(Ref("LSPAny")))>>)
InlayHintLabelPart == Struct(<<Req("value", String),
                               Opt("tooltip", OneOf(<<String, Ref("MarkupContent")>>)),
                               Opt("location", Ref("Location")), Opt("command", Ref("Command"))>>)
InlayHint == Struct(<<Req("position", Ref("Position")),
                      Req("label", OneOf(<<String, Vector(Ref("InlayHintLabelPart"))>>)),
                      Opt("kind", Ref("InlayHintKind")),
                      Opt("textEdits", Vector(Ref("TextEdit"))),
                      Opt("tooltip", OneOf(<<String, Ref("MarkupContent")>>)),
                      Opt("paddingLeft", Boolean), Opt("paddingRight", Boolean),
                      Opt("data", Ref("LSPAny"))>>)
InlayHintOptions == Struct(<<Opt("resolveProvider", Boolean)>>)
InlayHintRegistrationOptions ==
    Derived(<<"InlayHintOptions", "TextDocumentRegistrationOptions">>, <<>>)
DocumentDiagnosticParams ==
    Struct(<<Req("textDocument", Ref("TextDocumentIdentifier")), Opt("identifier", String),
             Opt("previousResultId", String)>>)
UnchangedDocumentDiagnosticReport == Kinded("unchanged", <<>>, <<Req("resultId", String)>>)
CodeDescription == Struct(<<Req("href", Uri)>>)
DiagnosticRelatedInformation ==
    Struct(<<Req("location", Ref("Location")), Req("message", String)>>)
Diagnostic == Struct(<<Req("range", Ref("Range")), Opt("severity", Ref("DiagnosticSeverity")),
                       Opt("code", OneOf(<<Integer, String>>)),
                       Opt("codeDescription", Ref("CodeDescription")), Opt("source", String),
                       Req("message", String), Opt("tags", Vector(Ref("DiagnosticTag"))),
                       Opt("relatedInformation", Vector(Ref("DiagnosticRelatedInformation"))),
                       Opt("data", Ref("LSPAny"))>>)
FullDocumentDiagnosticReport ==
    Kinded("full", <<>>, <<Opt("resultId", String), Req("items", Vector(Ref("Diagnostic")))>>)
DocumentDiagnosticReportPartialResult ==
    Struct(<<Req("relatedDocuments",
                 Map(OneOf(<<Ref("FullDocumentDiagnosticReport"),
                             Ref("UnchangedDocumentDiagnosticReport")>>)))>>)
DiagnosticServerCancellationData == Struct(<<Req("retriggerRequest", Boolean)>>)
DiagnosticOptions == Struct(<<Opt("identifier", String), Req("interFileDependencies", Boolean),
                              Req("workspaceDiagnostics", Boolean)>>)
DiagnosticRegistrationOptions ==
    Derived(<<"TextDocumentRegistrationOptions", "DiagnosticOptions">>, <<>>)
PreviousResultId == Struct(<<Req("uri", DocumentUri), Req("value", String)>>)
WorkspaceDiagnosticParams ==
    Struct(<<Opt("identifier", String),
             Req("previousResultIds", Vector(Ref("PreviousResultId")))>>)
WorkspaceDiagnosticReport ==
    Struct(<<Req("items", Vector(Ref("WorkspaceDocumentDiagnosticReport")))>>)
WorkspaceDiagnosticReportPartialResult ==
    Struct(<<Req("items", Vector(Ref("WorkspaceDocumentDiagnosticReport")))>>)
ExecutionSummary == Struct(<<Req("executionOrder", Uinteger), Opt("success", Boolean)>>)
NotebookCell == Struct(<<Req("kind", Ref("NotebookCellKind")), Req("document", DocumentUri),
                         Opt("metadata", Ref("LSPObject")),
                         Opt("executionSummary", Ref("ExecutionSummary"))>>)
NotebookDocument == Struct(<<Req("uri", Uri), Req("notebookType", String),
                             Req("version", Integer), Opt("metadata", Ref("LSPObject")),
                             Req("cells", Vector(Ref("NotebookCell")))>>)
TextDocumentItem == Struct(<<Req("uri", DocumentUri), Req("languageId", String),
                             Req("version", Integer), Req("text", String)>>)
DidOpenNotebookDocumentParams ==
    Struct(<<Req("notebookDocument", Ref("NotebookDocument")),
             Req("cellTextDocuments", Vector(Ref("TextDocumentItem")))>>)
VersionedNotebookDocumentIdentifier == Struct(<<Req("version", Integer), Req("uri", Uri)>>)
NotebookCellArrayChange ==
    Struct(<<Req("start", Uinteger), Req("deleteCount", Uinteger),
             Opt("cells", Vector(Ref("NotebookCell")))>>)
NotebookDocumentCellChangeStructure ==
    Struct(<<Req("array", Ref("NotebookCellArrayChange")),
             Opt("didOpen", Vector(Ref("TextDocumentItem"))),
             Opt("didClose", Vector(Ref("TextDocumentIdentifier")))>>)
VersionedTextDocumentIdentifier ==
    Derived(<<"TextDocumentIdentifier">>, <<Req("version", Integer)>>)
NotebookDocumentCellContentChanges ==
    Struct(<<Req("document", Ref("VersionedTextDocumentIdentifier")),
             Req("changes", Vector(Ref("TextDocumentContentChangeEvent")))>>)
NotebookDocumentCellChanges ==
    Struct(<<Opt("structure", Ref("NotebookDocumentCellChangeStructure")),
             Opt("data", Vector(Ref("NotebookCell"))),
             Opt("textContent", Vector(Ref("NotebookDocumentCellContentChanges")))>>)
NotebookDocumentChangeEvent ==
    Struct(<<Opt("metadata", Ref("LSPObject")), Opt("cells", Ref("NotebookDocumentCellChanges"))>>)
DidChangeNotebookDocumentParams ==
    Struct(<<Req("notebookDocument", Ref("VersionedNotebookDocumentIdentifier")),
             Req("change", Ref("NotebookDocumentChangeEvent"))>>)
NotebookDocumentIdentifier == Struct(<<Req("uri", Uri)>>)
DidSaveNotebookDocumentParams ==
    Struct(<<Req("notebookDocument", Ref("NotebookDocumentIdentifier"))>>)
DidCloseNotebookDocumentParams ==
    Struct(<<Req("notebookDocument", Ref("NotebookDocumentIdentifier")),
             Req("cellTextDocuments", Vector(Ref("TextDocumentIdentifier")))>>)
SelectedCompletionInfo == Struct(<<Req("range", Ref("Range")), Req("text", String)>>)
InlineCompletionContext ==
    Struct(<<Req("triggerKind", Ref("InlineCompletionTriggerKind")),
             Opt("selectedCompletionInfo", Ref("SelectedCompletionInfo"))>>)
InlineCompletionParams ==
    Derived(<<"TextDocumentPositionParams">>, <<Req("context", Ref("InlineCompletionContext"))>>)
StringValue == Kinded("snippet", <<>>, <<Req("value", String)>>)
InlineCompletionItem ==
    Struct(<<Req("insertText", OneOf(<<String, Ref("StringValue")>>)), Opt("filterText", String),
             Opt("range", Ref("Range")), Opt("command", Ref("Command"))>>)
InlineCompletionList == Struct(<<Req("items", Vector(Ref("InlineCompletionItem")))>>)
InlineCompletionOptions == Struct(<<>>)
InlineCompletionRegistrationOptions ==
    Derived(<<"InlineCompletionOptions", "TextDocumentRegistrationOptions">>, <<>>)

=============================================================================
