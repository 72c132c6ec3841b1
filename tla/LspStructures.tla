--------------------------- MODULE LspStructures ----------------------------
(***************************************************************************)
(* The remaining structures of src/lsp/lsp.cc, and the table of all.       *)
(***************************************************************************)
EXTENDS LspFeatures, LspCapabilities, TLC

ShowMessageParams == Struct(<<Req("type", Ref("MessageType")), Req("message", String)>>)
MessageActionItem == Struct(<<Req("title", String)>>)
ShowMessageRequestParams ==
    Struct(<<Req("type", Ref("MessageType")), Req("message", String),
             Opt("actions", Vector(Ref("MessageActionItem")))>>)
LogMessageParams == Struct(<<Req("type", Ref("MessageType")), Req("message", String)>>)
DidOpenTextDocumentParams == Struct(<<Req("textDocument", Ref("TextDocumentItem"))>>)
DidChangeTextDocumentParams ==
    Struct(<<Req("textDocument", Ref("VersionedTextDocumentIdentifier")),
             Req("contentChanges", Vector(Ref("TextDocumentContentChangeEvent")))>>)
TextDocumentChangeRegistrationOptions ==
    Derived(<<"TextDocumentRegistrationOptions">>,
            <<Req("syncKind", Ref("TextDocumentSyncKind"))>>)
DidCloseTextDocumentParams == Struct(<<Req("textDocument", Ref("TextDocumentIdentifier"))>>)
DidSaveTextDocumentParams ==
    Struct(<<Req("textDocument", Ref("TextDocumentIdentifier")), Opt("text", String)>>)
TextDocumentSaveRegistrationOptions ==
    Derived(<<"TextDocumentRegistrationOptions", "SaveOptions">>, <<>>)
WillSaveTextDocumentParams ==
    Struct(<<Req("textDocument", Ref("TextDocumentIdentifier")),
             Req("reason", Ref("TextDocumentSaveReason"))>>)
FileEvent == Struct(<<Req("uri", DocumentUri), Req("type", Ref("FileChangeType"))>>)
DidChangeWatchedFilesParams == Struct(<<Req("changes", Vector(Ref("FileEvent")))>>)
FileSystemWatcher == Struct(<<Req("globPattern", Ref("GlobPattern")),
                              Opt("kind", Ref("WatchKind"))>>)
DidChangeWatchedFilesRegistrationOptions ==
    Struct(<<Req("watchers", Vector(Ref("FileSystemWatcher")))>>)
PublishDiagnosticsParams ==
    Struct(<<Req("uri", DocumentUri), Opt("version", Integer),
             Req("diagnostics", Vector(Ref("Diagnostic")))>>)
CompletionContext == Struct(<<Req("triggerKind", Ref("CompletionTriggerKind")),
                              Opt("triggerCharacter", String)>>)
CompletionParams == Derived(<<"TextDocumentPositionParams">>,
                            <<Opt("context", Ref("CompletionContext"))>>)
CompletionItemLabelDetails == Struct(<<Opt("detail", String), Opt("description", String)>>)
InsertReplaceEdit == Struct(<<Req("newText", String), Req("insert", Ref("Range")),
                              Req("replace", Ref("Range"))>>)
CompletionItem == Struct(<<Req("label", String),
                           Opt("labelDetails", Ref("CompletionItemLabelDetails")),
                           Opt("kind", Ref("CompletionItemKind")),
                           Opt("tags", Vector(Ref("CompletionItemTag"))), Opt("detail", String),
                           Opt("documentation", OneOf(<<String, Ref("MarkupContent")>>)),
                           Opt("deprecated", Boolean), Opt("preselect", Boolean),
                           Opt("sortText", String), Opt("filterText", String),
                           Opt("insertText", String),
                           Opt("insertTextFormat", Ref("InsertTextFormat")),
                           Opt("insertTextMode", Ref("InsertTextMode")),
                           Opt("textEdit", OneOf(<<Ref("TextEdit"), Ref("InsertReplaceEdit")>>)),
                           Opt("textEditText", String),
                           Opt("additionalTextEdits", Vector(Ref("TextEdit"))),
                           Opt("commitCharacters", Vector(String)),
                           Opt("command", Ref("Command")), Opt("data", Ref("LSPAny"))>>)
EditRangeWithInsertReplace == Struct(<<Req("insert", Ref("Range")), Req("replace", Ref("Range"))>>)
CompletionItemDefaults ==
    Struct(<<Opt("commitCharacters", Vector(String)),
             Opt("editRange", OneOf(<<Ref("Range"), Ref("EditRangeWithInsertReplace")>>)),
             Opt("insertTextFormat", Ref("InsertTextFormat")),
             Opt("insertTextMode", Ref("InsertTextMode")), Opt("data", Ref("LSPAny"))>>)
CompletionList == Struct(<<Req("isIncomplete", Boolean),
                           Opt("itemDefaults", Ref("CompletionItemDefaults")),
                           Req("items", Vector(Ref("CompletionItem")))>>)
CompletionRegistrationOptions ==
    Derived(<<"TextDocumentRegistrationOptions", "CompletionOptions">>, <<>>)
HoverParams == Derived(<<"TextDocumentPositionParams">>, <<>>)
Hover == Struct(<<Req("contents",
                      OneOf(<<Ref("MarkupContent"), Ref("MarkedString"),
                              Vector(Ref("MarkedString"))>>)), Opt("range", Ref("Range"))>>)
HoverRegistrationOptions == Derived(<<"TextDocumentRegistrationOptions", "HoverOptions">>, <<>>)
ParameterInformation ==
    Struct(<<Req("label", OneOf(<<String, Tuple(<<Uinteger, Uinteger>>)>>)),
             Opt("documentation", OneOf(<<String, Ref("MarkupContent")>>))>>)
SignatureInformation ==
    Struct(<<Req("label", String), Opt("documentation", OneOf(<<String, Ref("MarkupContent")>>)),
             Opt("parameters", Vector(Ref("ParameterInformation"))),
             Opt("activeParameter", Uinteger)>>)
SignatureHelp == Struct(<<Req("signatures", Vector(Ref("SignatureInformation"))),
                          Opt("activeSignature", Uinteger), Opt("activeParameter", Uinteger)>>)
SignatureHelpContext ==
    Struct(<<Req("triggerKind", Ref("SignatureHelpTriggerKind")), Opt("triggerCharacter", String),
             Req("isRetrigger", Boolean), Opt("activeSignatureHelp", Ref("SignatureHelp"))>>)
SignatureHelpParams ==
    Derived(<<"TextDocumentPositionParams">>, <<Opt("context", Ref("SignatureHelpContext"))>>)
SignatureHelpRegistrationOptions ==
    Derived(<<"TextDocumentRegistrationOptions", "SignatureHelpOptions">>, <<>>)
DefinitionParams == Derived(<<"TextDocumentPositionParams">>, <<>>)
DefinitionRegistrationOptions ==
    Derived(<<"TextDocumentRegistrationOptions", "DefinitionOptions">>, <<>>)
ReferenceContext == Struct(<<Req("includeDeclaration", Boolean)>>)
ReferenceParams == Derived(<<"TextDocumentPositionParams">>,
                           <<Req("context", Ref("ReferenceContext"))>>)
ReferenceRegistrationOptions ==
    Derived(<<"TextDocumentRegistrationOptions", "ReferenceOptions">>, <<>>)
DocumentHighlightParams == Derived(<<"TextDocumentPositionParams">>, <<>>)
DocumentHighlight == Struct(<<Req("range", Ref("Range")),
                              Opt("kind", Ref("DocumentHighlightKind"))>>)
DocumentHighlightRegistrationOptions ==
    Derived(<<"TextDocumentRegistrationOptions", "DocumentHighlightOptions">>, <<>>)
DocumentSymbolParams == Struct(<<Req("textDocument", Ref("TextDocumentIdentifier"))>>)
BaseSymbolInformation ==
    Struct(<<Req("name", String), Req("kind", Ref("SymbolKind")),
             Opt("tags", Vector(Ref("SymbolTag"))), Opt("containerName", String)>>)
SymbolInformation == Derived(<<"BaseSymbolInformation">>,
                             <<Opt("deprecated", Boolean), Req("location", Ref("Location"))>>)
DocumentSymbol == Struct(<<Req("name", String), Opt("detail", String),
                           Req("kind", Ref("SymbolKind")), Opt("tags", Vector(Ref("SymbolTag"))),
                           Opt("deprecated", Boolean), Req("range", Ref("Range")),
                           Req("selectionRange", Ref("Range")),
                           Opt("children", Vector(Ref("DocumentSymbol")))>>)
DocumentSymbolRegistrationOptions ==
    Derived(<<"TextDocumentRegistrationOptions", "DocumentSymbolOptions">>, <<>>)
CodeActionContext == Struct(<<Req("diagnostics", Vector(Ref("Diagnostic"))),
                              Opt("only", Vector(Ref("CodeActionKind"))),
                              Opt("triggerKind", Ref("CodeActionTriggerKind"))>>)
CodeActionParams == Struct(<<Req("textDocument", Ref("TextDocumentIdentifier")),
                             Req("range", Ref("Range")),
                             Req("context", Ref("CodeActionContext"))>>)
CodeActionDisabled == Struct(<<Req("reason", String)>>)
CodeAction == Struct(<<Req("title", String), Opt("kind", Ref("CodeActionKind")),
                       Opt("diagnostics", Vector(Ref("Diagnostic"))), Opt("isPreferred", Boolean),
                       Opt("disabled", Ref("CodeActionDisabled")),
                       Opt("edit", Ref("WorkspaceEdit")), Opt("command", Ref("Command")),
                       Opt("data", Ref("LSPAny"))>>)
CodeActionRegistrationOptions ==
    Derived(<<"TextDocumentRegistrationOptions", "CodeActionOptions">>, <<>>)
WorkspaceSymbolParams == Struct(<<Req("query", String)>>)
LocationUriOnly == Struct(<<Req("uri", DocumentUri)>>)
WorkspaceSymbol == Derived(<<"BaseSymbolInformation">>,
                           <<Req("location", OneOf(<<Ref("Location"), Ref("LocationUriOnly")>>)),
                             Opt("data", Ref("LSPAny"))>>)
WorkspaceSymbolRegistrationOptions == Derived(<<"WorkspaceSymbolOptions">>, <<>>)
CodeLensParams == Struct(<<Req("textDocument", Ref("TextDocumentIdentifier"))>>)
CodeLens == Struct(<<Req("range", Ref("Range")), Opt("command", Ref("Command")),
                     Opt("data", Ref("LSPAny"))>>)
CodeLensRegistrationOptions ==
    Derived(<<"TextDocumentRegistrationOptions", "CodeLensOptions">>, <<>>)
DocumentLinkParams == Struct(<<Req("textDocument", Ref("TextDocumentIdentifier"))>>)
DocumentLink == Struct(<<Req("range", Ref("Range")), Opt("target", Uri), Opt("tooltip", String),
                         Opt("data", Ref("LSPAny"))>>)
DocumentLinkRegistrationOptions ==
    Derived(<<"TextDocumentRegistrationOptions", "DocumentLinkOptions">>, <<>>)
FormattingOptions == Struct(<<Req("tabSize", Uinteger), Req("insertSpaces", Boolean),
                              Opt("trimTrailingWhitespace", Boolean),
                              Opt("insertFinalNewline", Boolean),
                              Opt("trimFinalNewlines", Boolean)>>)
DocumentFormattingParams ==
    Struct(<<Req("textDocument", Ref("TextDocumentIdentifier")),
             Req("options", Ref("FormattingOptions"))>>)
DocumentFormattingRegistrationOptions ==
    Derived(<<"TextDocumentRegistrationOptions", "DocumentFormattingOptions">>, <<>>)
DocumentRangeFormattingParams ==
    Struct(<<Req("textDocument", Ref("TextDocumentIdentifier")), Req("range", Ref("Range")),
             Req("options", Ref("FormattingOptions"))>>)
DocumentRangeFormattingRegistrationOptions ==
    Derived(<<"TextDocumentRegistrationOptions", "DocumentRangeFormattingOptions">>, <<>>)
DocumentRangesFormattingParams ==
    Struct(<<Req("textDocument", Ref("TextDocumentIdentifier")),
             Req("ranges", Vector(Ref("Range"))), Req("options", Ref("FormattingOptions"))>>)
DocumentOnTypeFormattingParams ==
    Struct(<<Req("textDocument", Ref("TextDocumentIdentifier")), Req("position", Ref("Position")),
             Req("ch", String), Req("options", Ref("FormattingOptions"))>>)
DocumentOnTypeFormattingRegistrationOptions ==
    Derived(<<"TextDocumentRegistrationOptions", "DocumentOnTypeFormattingOptions">>, <<>>)
RenameParams == Struct(<<Req("textDocument", Ref("TextDocumentIdentifier")),
                         Req("position", Ref("Position")), Req("newName", String)>>)
RenameRegistrationOptions == Derived(<<"TextDocumentRegistrationOptions", "RenameOptions">>, <<>>)
PrepareRenameParams == Derived(<<"TextDocumentPositionParams">>, <<>>)
ExecuteCommandParams == Struct(<<Req("command", String), Opt("arguments", Vector(Ref("LSPAny")))>>)
ExecuteCommandRegistrationOptions == Derived(<<"ExecuteCommandOptions">>, <<>>)
ApplyWorkspaceEditParams == Struct(<<Opt("label", String), Req("edit", Ref("WorkspaceEdit"))>>)
ApplyWorkspaceEditResult ==
    Struct(<<Req("applied", Boolean), Opt("failureReason", String),
             Opt("failedChange", Uinteger)>>)
WorkDoneProgressBegin ==
    Kinded("begin", <<>>,
           <<Req("title", String), Opt("cancellable", Boolean), Opt("message", String),
             Opt("percentage", Uinteger)>>)
WorkDoneProgressReport ==
    Kinded("report", <<>>,
           <<Opt("cancellable", Boolean), Opt("message", String), Opt("percentage", Uinteger)>>)
WorkDoneProgressEnd == Kinded("end", <<>>, <<Opt("message", String)>>)
SetTraceParams == Struct(<<Req("value", Ref("TraceValues"))>>)
LogTraceParams == Struct(<<Req("message", String), Opt("verbose", String)>>)
CancelParams == Struct(<<Req("id", OneOf(<<Integer, String>>))>>)
ProgressParams == Struct(<<Req("token", Ref("ProgressToken")), Req("value", Ref("LSPAny"))>>)
WorkDoneProgressParams == Struct(<<Opt("workDoneToken", Ref("ProgressToken"))>>)
PartialResultParams == Struct(<<Opt("partialResultToken", Ref("ProgressToken"))>>)
LocationLink == Struct(<<Opt("originSelectionRange", Ref("Range")), Req("targetUri", DocumentUri),
                         Req("targetRange", Ref("Range")),
                         Req("targetSelectionRange", Ref("Range"))>>)
StaticRegistrationOptions == Struct(<<Opt("id", String)>>)
InlineValueText == Struct(<<Req("range", Ref("Range")), Req("text", String)>>)
InlineValueVariableLookup ==
    Struct(<<Req("range", Ref("Range")), Opt("variableName", String),
             Req("caseSensitiveLookup", Boolean)>>)
InlineValueEvaluatableExpression ==
    Struct(<<Req("range", Ref("Range")), Opt("expression", String)>>)
RelatedFullDocumentDiagnosticReport ==
    Derived(<<"FullDocumentDiagnosticReport">>,
            <<Opt("relatedDocuments",
                  Map(OneOf(<<Ref("FullDocumentDiagnosticReport"),
                              Ref("UnchangedDocumentDiagnosticReport")>>)))>>)
RelatedUnchangedDocumentDiagnosticReport ==
    Derived(<<"UnchangedDocumentDiagnosticReport">>,
            <<Opt("relatedDocuments",
                  Map(OneOf(<<Ref("FullDocumentDiagnosticReport"),
                              Ref("UnchangedDocumentDiagnosticReport")>>)))>>)
PrepareRenamePlaceholder == Struct(<<Req("range", Ref("Range")), Req("placeholder", String)>>)
PrepareRenameDefaultBehavior == Struct(<<Req("defaultBehavior", Boolean)>>)
WorkspaceFullDocumentDiagnosticReport ==
    Derived(<<"FullDocumentDiagnosticReport">>,
            <<Req("uri", DocumentUri), Req("version", OneOf(<<Integer, Null>>))>>)
WorkspaceUnchangedDocumentDiagnosticReport ==
    Derived(<<"UnchangedDocumentDiagnosticReport">>,
            <<Req("uri", DocumentUri), Req("version", OneOf(<<Integer, Null>>))>>)
TextDocumentContentChangePartial ==
    Struct(<<Req("range", Ref("Range")), Opt("rangeLength", Uinteger), Req("text", String)>>)
TextDocumentContentChangeWholeDocument == Struct(<<Req("text", String)>>)
MarkedStringWithLanguage == Struct(<<Req("language", String), Req("value", String)>>)
NotebookCellTextDocumentFilter ==
    Struct(<<Req("notebook", OneOf(<<String, Ref("NotebookDocumentFilter")>>)),
             Opt("language", String)>>)
RelativePattern == Struct(<<Req("baseUri", OneOf(<<Ref("WorkspaceFolder"), Uri>>)),
                            Req("pattern", Ref("Pattern"))>>)
TextDocumentFilterLanguage ==
    Struct(<<Req("language", String), Opt("scheme", String), Opt("pattern", String)>>)
TextDocumentFilterScheme ==
    Struct(<<Opt("language", String), Req("scheme", String), Opt("pattern", String)>>)
TextDocumentFilterPattern ==
    Struct(<<Opt("language", String), Opt("scheme", String), Req("pattern", String)>>)
NotebookDocumentFilterNotebookType ==
    Struct(<<Req("notebookType", String), Opt("scheme", String), Opt("pattern", String)>>)
NotebookDocumentFilterScheme ==
    Struct(<<Opt("notebookType", String), Req("scheme", String), Opt("pattern", String)>>)
NotebookDocumentFilterPattern ==
    Struct(<<Opt("notebookType", String), Opt("scheme", String), Req("pattern", String)>>)

Structures == [
    TextDocumentIdentifier |-> TextDocumentIdentifier, Position |-> Position,
    TextDocumentPositionParams |-> TextDocumentPositionParams,
    ImplementationParams |-> ImplementationParams, Range |-> Range, Location |-> Location,
    TextDocumentRegistrationOptions |-> TextDocumentRegistrationOptions,
    ImplementationOptions |-> ImplementationOptions,
    ImplementationRegistrationOptions |-> ImplementationRegistrationOptions,
    TypeDefinitionParams |-> TypeDefinitionParams, TypeDefinitionOptions |-> TypeDefinitionOptions,
    TypeDefinitionRegistrationOptions |-> TypeDefinitionRegistrationOptions,
    WorkspaceFolder |-> WorkspaceFolder,
    WorkspaceFoldersChangeEvent |-> WorkspaceFoldersChangeEvent,
    DidChangeWorkspaceFoldersParams |-> DidChangeWorkspaceFoldersParams,
    ConfigurationItem |-> ConfigurationItem, ConfigurationParams |-> ConfigurationParams,
    DocumentColorParams |-> DocumentColorParams, Color |-> Color,
    ColorInformation |-> ColorInformation, DocumentColorOptions |-> DocumentColorOptions,
    DocumentColorRegistrationOptions |-> DocumentColorRegistrationOptions,
    ColorPresentationParams |-> ColorPresentationParams, TextEdit |-> TextEdit,
    ColorPresentation |-> ColorPresentation, WorkDoneProgressOptions |-> WorkDoneProgressOptions,
    FoldingRangeParams |-> FoldingRangeParams, FoldingRange |-> FoldingRange,
    FoldingRangeOptions |-> FoldingRangeOptions,
    FoldingRangeRegistrationOptions |-> FoldingRangeRegistrationOptions,
    DeclarationParams |-> DeclarationParams, DeclarationOptions |-> DeclarationOptions,
    DeclarationRegistrationOptions |-> DeclarationRegistrationOptions,
    SelectionRangeParams |-> SelectionRangeParams, SelectionRange |-> SelectionRange,
    SelectionRangeOptions |-> SelectionRangeOptions,
    SelectionRangeRegistrationOptions |-> SelectionRangeRegistrationOptions,
    WorkDoneProgressCreateParams |-> WorkDoneProgressCreateParams,
    WorkDoneProgressCancelParams |-> WorkDoneProgressCancelParams,
    CallHierarchyPrepareParams |-> CallHierarchyPrepareParams,
    CallHierarchyItem |-> CallHierarchyItem, CallHierarchyOptions |-> CallHierarchyOptions,
    CallHierarchyRegistrationOptions |-> CallHierarchyRegistrationOptions,
    CallHierarchyIncomingCallsParams |-> CallHierarchyIncomingCallsParams,
    CallHierarchyIncomingCall |-> CallHierarchyIncomingCall,
    CallHierarchyOutgoingCallsParams |-> CallHierarchyOutgoingCallsParams,
    CallHierarchyOutgoingCall |-> CallHierarchyOutgoingCall,
    SemanticTokensParams |-> SemanticTokensParams, SemanticTokens |-> SemanticTokens,
    SemanticTokensPartialResult |-> SemanticTokensPartialResult,
    SemanticTokensLegend |-> SemanticTokensLegend,
    SemanticTokensFullDelta |-> SemanticTokensFullDelta,
    SemanticTokensOptions |-> SemanticTokensOptions,
    SemanticTokensOptions_Range |-> SemanticTokensOptions_Range,
    SemanticTokensRegistrationOptions |-> SemanticTokensRegistrationOptions,
    SemanticTokensDeltaParams |-> SemanticTokensDeltaParams,
    SemanticTokensEdit |-> SemanticTokensEdit, SemanticTokensDelta |-> SemanticTokensDelta,
    SemanticTokensDeltaPartialResult |-> SemanticTokensDeltaPartialResult,
    SemanticTokensRangeParams |-> SemanticTokensRangeParams,
    ShowDocumentParams |-> ShowDocumentParams, ShowDocumentResult |-> ShowDocumentResult,
    LinkedEditingRangeParams |-> LinkedEditingRangeParams,
    LinkedEditingRanges |-> LinkedEditingRanges,
    LinkedEditingRangeOptions |-> LinkedEditingRangeOptions,
    LinkedEditingRangeRegistrationOptions |-> LinkedEditingRangeRegistrationOptions,
    FileCreate |-> FileCreate, CreateFilesParams |-> CreateFilesParams,
    ResourceOperation |-> ResourceOperation, DeleteFileOptions |-> DeleteFileOptions,
    DeleteFile |-> DeleteFile, RenameFileOptions |-> RenameFileOptions, RenameFile |-> RenameFile,
    CreateFileOptions |-> CreateFileOptions, CreateFile |-> CreateFile,
    OptionalVersionedTextDocumentIdentifier |-> OptionalVersionedTextDocumentIdentifier,
    AnnotatedTextEdit |-> AnnotatedTextEdit, TextDocumentEdit |-> TextDocumentEdit,
    ChangeAnnotation |-> ChangeAnnotation, WorkspaceEdit |-> WorkspaceEdit,
    FileOperationPatternOptions |-> FileOperationPatternOptions,
    FileOperationPattern |-> FileOperationPattern, FileOperationFilter |-> FileOperationFilter,
    FileOperationRegistrationOptions |-> FileOperationRegistrationOptions,
    FileRename |-> FileRename, RenameFilesParams |-> RenameFilesParams, FileDelete |-> FileDelete,
    DeleteFilesParams |-> DeleteFilesParams, MonikerParams |-> MonikerParams, Moniker |-> Moniker,
    MonikerOptions |-> MonikerOptions, MonikerRegistrationOptions |-> MonikerRegistrationOptions,
    TypeHierarchyPrepareParams |-> TypeHierarchyPrepareParams,
    TypeHierarchyItem |-> TypeHierarchyItem, TypeHierarchyOptions |-> TypeHierarchyOptions,
    TypeHierarchyRegistrationOptions |-> TypeHierarchyRegistrationOptions,
    TypeHierarchySupertypesParams |-> TypeHierarchySupertypesParams,
    TypeHierarchySubtypesParams |-> TypeHierarchySubtypesParams,
    InlineValueContext |-> InlineValueContext, InlineValueParams |-> InlineValueParams,
    InlineValueOptions |-> InlineValueOptions,
    InlineValueRegistrationOptions |-> InlineValueRegistrationOptions,
    InlayHintParams |-> InlayHintParams, MarkupContent |-> MarkupContent, Command |-> Command,
    InlayHintLabelPart |-> InlayHintLabelPart, InlayHint |-> InlayHint,
    InlayHintOptions |-> InlayHintOptions,
    InlayHintRegistrationOptions |-> InlayHintRegistrationOptions,
    DocumentDiagnosticParams |-> DocumentDiagnosticParams,
    UnchangedDocumentDiagnosticReport |-> UnchangedDocumentDiagnosticReport,
    CodeDescription |-> CodeDescription,
    DiagnosticRelatedInformation |-> DiagnosticRelatedInformation, Diagnostic |-> Diagnostic,
    FullDocumentDiagnosticReport |-> FullDocumentDiagnosticReport,
    DocumentDiagnosticReportPartialResult |-> DocumentDiagnosticReportPartialResult,
    DiagnosticServerCancellationData |-> DiagnosticServerCancellationData,
    DiagnosticOptions |-> DiagnosticOptions,
    DiagnosticRegistrationOptions |-> DiagnosticRegistrationOptions,
    PreviousResultId |-> PreviousResultId, WorkspaceDiagnosticParams |-> WorkspaceDiagnosticParams,
    WorkspaceDiagnosticReport |-> WorkspaceDiagnosticReport,
    WorkspaceDiagnosticReportPartialResult |-> WorkspaceDiagnosticReportPartialResult,
    ExecutionSummary |-> ExecutionSummary, NotebookCell |-> NotebookCell,
    NotebookDocument |-> NotebookDocument, TextDocumentItem |-> TextDocumentItem,
    DidOpenNotebookDocumentParams |-> DidOpenNotebookDocumentParams,
    VersionedNotebookDocumentIdentifier |-> VersionedNotebookDocumentIdentifier,
    NotebookCellArrayChange |-> NotebookCellArrayChange,
    NotebookDocumentCellChangeStructure |-> NotebookDocumentCellChangeStructure,
    VersionedTextDocumentIdentifier |-> VersionedTextDocumentIdentifier,
    NotebookDocumentCellContentChanges |-> NotebookDocumentCellContentChanges,
    NotebookDocumentCellChanges |-> NotebookDocumentCellChanges,
    NotebookDocumentChangeEvent |-> NotebookDocumentChangeEvent,
    DidChangeNotebookDocumentParams |-> DidChangeNotebookDocumentParams,
    NotebookDocumentIdentifier |-> NotebookDocumentIdentifier,
    DidSaveNotebookDocumentParams |-> DidSaveNotebookDocumentParams,
    DidCloseNotebookDocumentParams |-> DidCloseNotebookDocumentParams,
    SelectedCompletionInfo |-> SelectedCompletionInfo,
    InlineCompletionContext |-> InlineCompletionContext,
    InlineCompletionParams |-> InlineCompletionParams, StringValue |-> StringValue,
    InlineCompletionItem |-> InlineCompletionItem, InlineCompletionList |-> InlineCompletionList,
    InlineCompletionOptions |-> InlineCompletionOptions,
    InlineCompletionRegistrationOptions |-> InlineCompletionRegistrationOptions,
    Registration |-> Registration, RegistrationParams |-> RegistrationParams,
    Unregistration |-> Unregistration, UnregistrationParams |-> UnregistrationParams,
    ClientInfo |-> ClientInfo, ChangeAnnotationsSupportOptions |-> ChangeAnnotationsSupportOptions,
    WorkspaceEditClientCapabilities |-> WorkspaceEditClientCapabilities,
    DidChangeConfigurationClientCapabilities |-> DidChangeConfigurationClientCapabilities,
    DidChangeWatchedFilesClientCapabilities |-> DidChangeWatchedFilesClientCapabilities,
    ClientSymbolKindOptions |-> ClientSymbolKindOptions,
    ClientSymbolTagOptions |-> ClientSymbolTagOptions,
    ClientSymbolResolveOptions |-> ClientSymbolResolveOptions,
    WorkspaceSymbolClientCapabilities |-> WorkspaceSymbolClientCapabilities,
    ExecuteCommandClientCapabilities |-> ExecuteCommandClientCapabilities,
    SemanticTokensWorkspaceClientCapabilities |-> SemanticTokensWorkspaceClientCapabilities,
    CodeLensWorkspaceClientCapabilities |-> CodeLensWorkspaceClientCapabilities,
    FileOperationClientCapabilities |-> FileOperationClientCapabilities,
    InlineValueWorkspaceClientCapabilities |-> InlineValueWorkspaceClientCapabilities,
    InlayHintWorkspaceClientCapabilities |-> InlayHintWorkspaceClientCapabilities,
    DiagnosticWorkspaceClientCapabilities |-> DiagnosticWorkspaceClientCapabilities,
    FoldingRangeWorkspaceClientCapabilities |-> FoldingRangeWorkspaceClientCapabilities,
    WorkspaceClientCapabilities |-> WorkspaceClientCapabilities,
    TextDocumentSyncClientCapabilities |-> TextDocumentSyncClientCapabilities,
    CompletionItemTagOptions |-> CompletionItemTagOptions,
    ClientCompletionItemResolveOptions |-> ClientCompletionItemResolveOptions,
    ClientCompletionItemInsertTextModeOptions |-> ClientCompletionItemInsertTextModeOptions,
    ClientCompletionItemOptions |-> ClientCompletionItemOptions,
    ClientCompletionItemOptionsKind |-> ClientCompletionItemOptionsKind,
    CompletionListCapabilities |-> CompletionListCapabilities,
    CompletionClientCapabilities |-> CompletionClientCapabilities,
    HoverClientCapabilities |-> HoverClientCapabilities,
    ClientSignatureParameterInformationOptions |-> ClientSignatureParameterInformationOptions,
    ClientSignatureInformationOptions |-> ClientSignatureInformationOptions,
    SignatureHelpClientCapabilities |-> SignatureHelpClientCapabilities,
    DeclarationClientCapabilities |-> DeclarationClientCapabilities,
    DefinitionClientCapabilities |-> DefinitionClientCapabilities,
    TypeDefinitionClientCapabilities |-> TypeDefinitionClientCapabilities,
    ImplementationClientCapabilities |-> ImplementationClientCapabilities,
    ReferenceClientCapabilities |-> ReferenceClientCapabilities,
    DocumentHighlightClientCapabilities |-> DocumentHighlightClientCapabilities,
    DocumentSymbolClientCapabilities |-> DocumentSymbolClientCapabilities,
    ClientCodeActionKindOptions |-> ClientCodeActionKindOptions,
    ClientCodeActionLiteralOptions |-> ClientCodeActionLiteralOptions,
    ClientCodeActionResolveOptions |-> ClientCodeActionResolveOptions,
    CodeActionClientCapabilities |-> CodeActionClientCapabilities,
    CodeLensClientCapabilities |-> CodeLensClientCapabilities,
    DocumentLinkClientCapabilities |-> DocumentLinkClientCapabilities,
    DocumentColorClientCapabilities |-> DocumentColorClientCapabilities,
    DocumentFormattingClientCapabilities |-> DocumentFormattingClientCapabilities,
    DocumentRangeFormattingClientCapabilities |-> DocumentRangeFormattingClientCapabilities,
    DocumentOnTypeFormattingClientCapabilities |-> DocumentOnTypeFormattingClientCapabilities,
    RenameClientCapabilities |-> RenameClientCapabilities,
    ClientFoldingRangeKindOptions |-> ClientFoldingRangeKindOptions,
    ClientFoldingRangeOptions |-> ClientFoldingRangeOptions,
    FoldingRangeClientCapabilities |-> FoldingRangeClientCapabilities,
    SelectionRangeClientCapabilities |-> SelectionRangeClientCapabilities,
    ClientDiagnosticsTagOptions |-> ClientDiagnosticsTagOptions,
    PublishDiagnosticsClientCapabilities |-> PublishDiagnosticsClientCapabilities,
    CallHierarchyClientCapabilities |-> CallHierarchyClientCapabilities,
    ClientSemanticTokensRequestFullDelta |-> ClientSemanticTokensRequestFullDelta,
    ClientSemanticTokensRequestOptions |-> ClientSemanticTokensRequestOptions,
    ClientSemanticTokensRequestOptions_Range |-> ClientSemanticTokensRequestOptions_Range,
    SemanticTokensClientCapabilities |-> SemanticTokensClientCapabilities,
    LinkedEditingRangeClientCapabilities |-> LinkedEditingRangeClientCapabilities,
    MonikerClientCapabilities |-> MonikerClientCapabilities,
    TypeHierarchyClientCapabilities |-> TypeHierarchyClientCapabilities,
    InlineValueClientCapabilities |-> InlineValueClientCapabilities,
    ClientInlayHintResolveOptions |-> ClientInlayHintResolveOptions,
    InlayHintClientCapabilities |-> InlayHintClientCapabilities,
    DiagnosticClientCapabilities |-> DiagnosticClientCapabilities,
    InlineCompletionClientCapabilities |-> InlineCompletionClientCapabilities,
    TextDocumentClientCapabilities |-> TextDocumentClientCapabilities,
    NotebookDocumentSyncClientCapabilities |-> NotebookDocumentSyncClientCapabilities,
    NotebookDocumentClientCapabilities |-> NotebookDocumentClientCapabilities,
    ClientShowMessageActionItemOptions |-> ClientShowMessageActionItemOptions,
    ShowMessageRequestClientCapabilities |-> ShowMessageRequestClientCapabilities,
    ShowDocumentClientCapabilities |-> ShowDocumentClientCapabilities,
    WindowClientCapabilities |-> WindowClientCapabilities,
    StaleRequestSupportOptions |-> StaleRequestSupportOptions,
    RegularExpressionsClientCapabilities |-> RegularExpressionsClientCapabilities,
    MarkdownClientCapabilities |-> MarkdownClientCapabilities,
    GeneralClientCapabilities |-> GeneralClientCapabilities,
    ClientCapabilities |-> ClientCapabilities, InitializeParamsBase |-> InitializeParamsBase,
    WorkspaceFoldersInitializeParams |-> WorkspaceFoldersInitializeParams,
    InitializeParams |-> InitializeParams, SaveOptions |-> SaveOptions,
    TextDocumentSyncOptions |-> TextDocumentSyncOptions,
    NotebookCellLanguage |-> NotebookCellLanguage,
    NotebookDocumentFilterWithCells |-> NotebookDocumentFilterWithCells,
    NotebookDocumentFilterWithNotebook |-> NotebookDocumentFilterWithNotebook,
    NotebookDocumentSyncOptions |-> NotebookDocumentSyncOptions,
    NotebookDocumentSyncRegistrationOptions |-> NotebookDocumentSyncRegistrationOptions,
    ServerCompletionItemOptions |-> ServerCompletionItemOptions,
    CompletionOptions |-> CompletionOptions, HoverOptions |-> HoverOptions,
    SignatureHelpOptions |-> SignatureHelpOptions, DefinitionOptions |-> DefinitionOptions,
    ReferenceOptions |-> ReferenceOptions, DocumentHighlightOptions |-> DocumentHighlightOptions,
    DocumentSymbolOptions |-> DocumentSymbolOptions, CodeActionOptions |-> CodeActionOptions,
    CodeLensOptions |-> CodeLensOptions, DocumentLinkOptions |-> DocumentLinkOptions,
    WorkspaceSymbolOptions |-> WorkspaceSymbolOptions,
    DocumentFormattingOptions |-> DocumentFormattingOptions,
    DocumentRangeFormattingOptions |-> DocumentRangeFormattingOptions,
    DocumentOnTypeFormattingOptions |-> DocumentOnTypeFormattingOptions,
    RenameOptions |-> RenameOptions, ExecuteCommandOptions |-> ExecuteCommandOptions,
    WorkspaceFoldersServerCapabilities |-> WorkspaceFoldersServerCapabilities,
    FileOperationOptions |-> FileOperationOptions, WorkspaceOptions |-> WorkspaceOptions,
    ServerCapabilities |-> ServerCapabilities, ServerInfo |-> ServerInfo,
    InitializeResult |-> InitializeResult, InitializeError |-> InitializeError,
    InitializedParams |-> InitializedParams,
    DidChangeConfigurationParams |-> DidChangeConfigurationParams,
    DidChangeConfigurationRegistrationOptions |-> DidChangeConfigurationRegistrationOptions,
    ShowMessageParams |-> ShowMessageParams, MessageActionItem |-> MessageActionItem,
    ShowMessageRequestParams |-> ShowMessageRequestParams, LogMessageParams |-> LogMessageParams,
    DidOpenTextDocumentParams |-> DidOpenTextDocumentParams,
    DidChangeTextDocumentParams |-> DidChangeTextDocumentParams,
    TextDocumentChangeRegistrationOptions |-> TextDocumentChangeRegistrationOptions,
    DidCloseTextDocumentParams |-> DidCloseTextDocumentParams,
    DidSaveTextDocumentParams |-> DidSaveTextDocumentParams,
    TextDocumentSaveRegistrationOptions |-> TextDocumentSaveRegistrationOptions,
    WillSaveTextDocumentParams |-> WillSaveTextDocumentParams, FileEvent |-> FileEvent,
    DidChangeWatchedFilesParams |-> DidChangeWatchedFilesParams,
    FileSystemWatcher |-> FileSystemWatcher,
    DidChangeWatchedFilesRegistrationOptions |-> DidChangeWatchedFilesRegistrationOptions,
    PublishDiagnosticsParams |-> PublishDiagnosticsParams, CompletionContext |-> CompletionContext,
    CompletionParams |-> CompletionParams,
    CompletionItemLabelDetails |-> CompletionItemLabelDetails,
    InsertReplaceEdit |-> InsertReplaceEdit, CompletionItem |-> CompletionItem,
    EditRangeWithInsertReplace |-> EditRangeWithInsertReplace,
    CompletionItemDefaults |-> CompletionItemDefaults, CompletionList |-> CompletionList,
    CompletionRegistrationOptions |-> CompletionRegistrationOptions, HoverParams |-> HoverParams,
    Hover |-> Hover, HoverRegistrationOptions |-> HoverRegistrationOptions,
    ParameterInformation |-> ParameterInformation, SignatureInformation |-> SignatureInformation,
    SignatureHelp |-> SignatureHelp, SignatureHelpContext |-> SignatureHelpContext,
    SignatureHelpParams |-> SignatureHelpParams,
    SignatureHelpRegistrationOptions |-> SignatureHelpRegistrationOptions,
    DefinitionParams |-> DefinitionParams,
    DefinitionRegistrationOptions |-> DefinitionRegistrationOptions,
    ReferenceContext |-> ReferenceContext, ReferenceParams |-> ReferenceParams,
    ReferenceRegistrationOptions |-> ReferenceRegistrationOptions,
    DocumentHighlightParams |-> DocumentHighlightParams, DocumentHighlight |-> DocumentHighlight,
    DocumentHighlightRegistrationOptions |-> DocumentHighlightRegistrationOptions,
    DocumentSymbolParams |-> DocumentSymbolParams, BaseSymbolInformation |-> BaseSymbolInformation,
    SymbolInformation |-> SymbolInformation, DocumentSymbol |-> DocumentSymbol,
    DocumentSymbolRegistrationOptions |-> DocumentSymbolRegistrationOptions,
    CodeActionContext |-> CodeActionContext, CodeActionParams |-> CodeActionParams,
    CodeActionDisabled |-> CodeActionDisabled, CodeAction |-> CodeAction,
    CodeActionRegistrationOptions |-> CodeActionRegistrationOptions,
    WorkspaceSymbolParams |-> WorkspaceSymbolParams, LocationUriOnly |-> LocationUriOnly,
    WorkspaceSymbol |-> WorkspaceSymbol,
    WorkspaceSymbolRegistrationOptions |-> WorkspaceSymbolRegistrationOptions,
    CodeLensParams |-> CodeLensParams, CodeLens |-> CodeLens,
    CodeLensRegistrationOptions |-> CodeLensRegistrationOptions,
    DocumentLinkParams |-> DocumentLinkParams, DocumentLink |-> DocumentLink,
    DocumentLinkRegistrationOptions |-> DocumentLinkRegistrationOptions,
    FormattingOptions |-> FormattingOptions, DocumentFormattingParams |-> DocumentFormattingParams,
    DocumentFormattingRegistrationOptions |-> DocumentFormattingRegistrationOptions,
    DocumentRangeFormattingParams |-> DocumentRangeFormattingParams,
    DocumentRangeFormattingRegistrationOptions |-> DocumentRangeFormattingRegistrationOptions,
    DocumentRangesFormattingParams |-> DocumentRangesFormattingParams,
    DocumentOnTypeFormattingParams |-> DocumentOnTypeFormattingParams,
    DocumentOnTypeFormattingRegistrationOptions |-> DocumentOnTypeFormattingRegistrationOptions,
    RenameParams |-> RenameParams, RenameRegistrationOptions |-> RenameRegistrationOptions,
    PrepareRenameParams |-> PrepareRenameParams, ExecuteCommandParams |-> ExecuteCommandParams,
    ExecuteCommandRegistrationOptions |-> ExecuteCommandRegistrationOptions,
    ApplyWorkspaceEditParams |-> ApplyWorkspaceEditParams,
    ApplyWorkspaceEditResult |-> ApplyWorkspaceEditResult,
    WorkDoneProgressBegin |-> WorkDoneProgressBegin,
    WorkDoneProgressReport |-> WorkDoneProgressReport, WorkDoneProgressEnd |-> WorkDoneProgressEnd,
    SetTraceParams |-> SetTraceParams, LogTraceParams |-> LogTraceParams,
    CancelParams |-> CancelParams, ProgressParams |-> ProgressParams,
    WorkDoneProgressParams |-> WorkDoneProgressParams, PartialResultParams |-> PartialResultParams,
    LocationLink |-> LocationLink, StaticRegistrationOptions |-> StaticRegistrationOptions,
    InlineValueText |-> InlineValueText, InlineValueVariableLookup |-> InlineValueVariableLookup,
    InlineValueEvaluatableExpression |-> InlineValueEvaluatableExpression,
    RelatedFullDocumentDiagnosticReport |-> RelatedFullDocumentDiagnosticReport,
    RelatedUnchangedDocumentDiagnosticReport |-> RelatedUnchangedDocumentDiagnosticReport,
    PrepareRenamePlaceholder |-> PrepareRenamePlaceholder,
    PrepareRenameDefaultBehavior |-> PrepareRenameDefaultBehavior,
    WorkspaceFullDocumentDiagnosticReport |-> WorkspaceFullDocumentDiagnosticReport,
    WorkspaceUnchangedDocumentDiagnosticReport |-> WorkspaceUnchangedDocumentDiagnosticReport,
    TextDocumentContentChangePartial |-> TextDocumentContentChangePartial,
    TextDocumentContentChangeWholeDocument |-> TextDocumentContentChangeWholeDocument,
    MarkedStringWithLanguage |-> MarkedStringWithLanguage,
    NotebookCellTextDocumentFilter |-> NotebookCellTextDocumentFilter,
    RelativePattern |-> RelativePattern, TextDocumentFilterLanguage |-> TextDocumentFilterLanguage,
    TextDocumentFilterScheme |-> TextDocumentFilterScheme,
    TextDocumentFilterPattern |-> TextDocumentFilterPattern,
    NotebookDocumentFilterNotebookType |-> NotebookDocumentFilterNotebookType,
    NotebookDocumentFilterScheme |-> NotebookDocumentFilterScheme,
    NotebookDocumentFilterPattern |-> NotebookDocumentFilterPattern]

(* What every name refers to *)
LspTable == Structures @@ Enumerations @@ Aliases

=============================================================================
