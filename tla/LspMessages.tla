----------------------------- MODULE LspMessages -----------------------------
(***************************************************************************)
(* The requests and notifications of langsvr/lsp/lsp.h: the method that    *)
(* dispatches the message, the structure its parameters are decoded into,  *)
(* and for a request the types of its result and of its error data.        *)
(***************************************************************************)
EXTENDS LspStructures

NoParams == ""
Void == <<"void">>

Request(method, params, success, failure) ==
    [method |-> method, params |-> params, success |-> success, failure |-> failure]
Notification(method, params) == [method |-> method, params |-> params]

TextDocumentImplementationRequest ==
    Request("textDocument/implementation", "ImplementationParams",
            OneOf(<<Ref("Definition"), Vector(Ref("DefinitionLink")), Null>>), Void)
TextDocumentTypeDefinitionRequest ==
    Request("textDocument/typeDefinition", "TypeDefinitionParams",
            OneOf(<<Ref("Definition"), Vector(Ref("DefinitionLink")), Null>>), Void)
WorkspaceWorkspaceFoldersRequest ==
    Request("workspace/workspaceFolders", NoParams,
            OneOf(<<Vector(Ref("WorkspaceFolder")), Null>>), Void)
WorkspaceConfigurationRequest ==
    Request("workspace/configuration", "ConfigurationParams", Vector(Ref("LSPAny")), Void)
TextDocumentDocumentColorRequest ==
    Request("textDocument/documentColor", "DocumentColorParams", Vector(Ref("ColorInformation")),
            Void)
TextDocumentColorPresentationRequest ==
    Request("textDocument/colorPresentation", "ColorPresentationParams",
            Vector(Ref("ColorPresentation")), Void)
TextDocumentFoldingRangeRequest ==
    Request("textDocument/foldingRange", "FoldingRangeParams",
            OneOf(<<Vector(Ref("FoldingRange")), Null>>), Void)
WorkspaceFoldingRangeRefreshRequest ==
    Request("workspace/foldingRange/refresh", NoParams, Null, Void)
TextDocumentDeclarationRequest ==
    Request("textDocument/declaration", "DeclarationParams",
            OneOf(<<Ref("Declaration"), Vector(Ref("DeclarationLink")), Null>>), Void)
TextDocumentSelectionRangeRequest ==
    Request("textDocument/selectionRange", "SelectionRangeParams",
            OneOf(<<Vector(Ref("SelectionRange")), Null>>), Void)
WindowWorkDoneProgressCreateRequest ==
    Request("window/workDoneProgress/create", "WorkDoneProgressCreateParams", Null, Void)
TextDocumentPrepareCallHierarchyRequest ==
    Request("textDocument/prepareCallHierarchy", "CallHierarchyPrepareParams",
            OneOf(<<Vector(Ref("CallHierarchyItem")), Null>>), Void)
CallHierarchyIncomingCallsRequest ==
    Request("callHierarchy/incomingCalls", "CallHierarchyIncomingCallsParams",
            OneOf(<<Vector(Ref("CallHierarchyIncomingCall")), Null>>), Void)
CallHierarchyOutgoingCallsRequest ==
    Request("callHierarchy/outgoingCalls", "CallHierarchyOutgoingCallsParams",
            OneOf(<<Vector(Ref("CallHierarchyOutgoingCall")), Null>>), Void)
TextDocumentSemanticTokensFullRequest ==
    Request("textDocument/semanticTokens/full", "SemanticTokensParams",
            OneOf(<<Ref("SemanticTokens"), Null>>), Void)
TextDocumentSemanticTokensFullDeltaRequest ==
    Request("textDocument/semanticTokens/full/delta", "SemanticTokensDeltaParams",
            OneOf(<<Ref("SemanticTokens"), Ref("SemanticTokensDelta"), Null>>), Void)
TextDocumentSemanticTokensRangeRequest ==
    Request("textDocument/semanticTokens/range", "SemanticTokensRangeParams",
            OneOf(<<Ref("SemanticTokens"), Null>>), Void)
WorkspaceSemanticTokensRefreshRequest ==
    Request("workspace/semanticTokens/refresh", NoParams, Null, Void)
WindowShowDocumentRequest ==
    Request("window/showDocument", "ShowDocumentParams", Ref("ShowDocumentResult"), Void)
TextDocumentLinkedEditingRangeRequest ==
    Request("textDocument/linkedEditingRange", "LinkedEditingRangeParams",
            OneOf(<<Ref("LinkedEditingRanges"), Null>>), Void)
WorkspaceWillCreateFilesRequest ==
    Request("workspace/willCreateFiles", "CreateFilesParams",
            OneOf(<<Ref("WorkspaceEdit"), Null>>), Void)
WorkspaceWillRenameFilesRequest ==
    Request("workspace/willRenameFiles", "RenameFilesParams",
            OneOf(<<Ref("WorkspaceEdit"), Null>>), Void)
WorkspaceWillDeleteFilesRequest ==
    Request("workspace/willDeleteFiles", "DeleteFilesParams",
            OneOf(<<Ref("WorkspaceEdit"), Null>>), Void)
TextDocumentMonikerRequest ==
    Request("textDocument/moniker", "MonikerParams", OneOf(<<Vector(Ref("Moniker")), Null>>), Void)
TextDocumentPrepareTypeHierarchyRequest ==
    Request("textDocument/prepareTypeHierarchy", "TypeHierarchyPrepareParams",
            OneOf(<<Vector(Ref("TypeHierarchyItem")), Null>>), Void)
TypeHierarchySupertypesRequest ==
    Request("typeHierarchy/supertypes", "TypeHierarchySupertypesParams",
            OneOf(<<Vector(Ref("TypeHierarchyItem")), Null>>), Void)
TypeHierarchySubtypesRequest ==
    Request("typeHierarchy/subtypes", "TypeHierarchySubtypesParams",
            OneOf(<<Vector(Ref("TypeHierarchyItem")), Null>>), Void)
TextDocumentInlineValueRequest ==
    Request("textDocument/inlineValue", "InlineValueParams",
            OneOf(<<Vector(Ref("InlineValue")), Null>>), Void)
WorkspaceInlineValueRefreshRequest ==
    Request("workspace/inlineValue/refresh", NoParams, Null, Void)
TextDocumentInlayHintRequest ==
    Request("textDocument/inlayHint", "InlayHintParams", OneOf(<<Vector(Ref("InlayHint")), Null>>),
            Void)
InlayHintResolveRequest == Request("inlayHint/resolve", "InlayHint", Ref("InlayHint"), Void)
WorkspaceInlayHintRefreshRequest == Request("workspace/inlayHint/refresh", NoParams, Null, Void)
TextDocumentDiagnosticRequest ==
    Request("textDocument/diagnostic", "DocumentDiagnosticParams", Ref("DocumentDiagnosticReport"),
            Ref("DiagnosticServerCancellationData"))
WorkspaceDiagnosticRequest ==
    Request("workspace/diagnostic", "WorkspaceDiagnosticParams", Ref("WorkspaceDiagnosticReport"),
            Ref("DiagnosticServerCancellationData"))
WorkspaceDiagnosticRefreshRequest == Request("workspace/diagnostic/refresh", NoParams, Null, Void)
TextDocumentInlineCompletionRequest ==
    Request("textDocument/inlineCompletion", "InlineCompletionParams",
            OneOf(<<Ref("InlineCompletionList"), Vector(Ref("InlineCompletionItem")), Null>>),
            Void)
ClientRegisterCapabilityRequest ==
    Request("client/registerCapability", "RegistrationParams", Null, Void)
ClientUnregisterCapabilityRequest ==
    Request("client/unregisterCapability", "UnregistrationParams", Null, Void)
InitializeRequest == Request("initialize", "InitializeParams", Ref("InitializeResult"),
                             Ref("InitializeError"))
ShutdownRequest == Request("shutdown", NoParams, Null, Void)
WindowShowMessageRequestRequest ==
    Request("window/showMessageRequest", "ShowMessageRequestParams",
            OneOf(<<Ref("MessageActionItem"), Null>>), Void)
TextDocumentWillSaveWaitUntilRequest ==
    Request("textDocument/willSaveWaitUntil", "WillSaveTextDocumentParams",
            OneOf(<<Vector(Ref("TextEdit")), Null>>), Void)
TextDocumentCompletionRequest ==
    Request("textDocument/completion", "CompletionParams",
            OneOf(<<Vector(Ref("CompletionItem")), Ref("CompletionList"), Null>>), Void)
CompletionItemResolveRequest ==
    Request("completionItem/resolve", "CompletionItem", Ref("CompletionItem"), Void)
TextDocumentHoverRequest ==
    Request("textDocument/hover", "HoverParams", OneOf(<<Ref("Hover"), Null>>), Void)
TextDocumentSignatureHelpRequest ==
    Request("textDocument/signatureHelp", "SignatureHelpParams",
            OneOf(<<Ref("SignatureHelp"), Null>>), Void)
TextDocumentDefinitionRequest ==
    Request("textDocument/definition", "DefinitionParams",
            OneOf(<<Ref("Definition"), Vector(Ref("DefinitionLink")), Null>>), Void)
TextDocumentReferencesRequest ==
    Request("textDocument/references", "ReferenceParams", OneOf(<<Vector(Ref("Location")), Null>>),
            Void)
TextDocumentDocumentHighlightRequest ==
    Request("textDocument/documentHighlight", "DocumentHighlightParams",
            OneOf(<<Vector(Ref("DocumentHighlight")), Null>>), Void)
TextDocumentDocumentSymbolRequest ==
    Request("textDocument/documentSymbol", "DocumentSymbolParams",
            OneOf(<<Vector(Ref("SymbolInformation")), Vector(Ref("DocumentSymbol")), Null>>), Void)
TextDocumentCodeActionRequest ==
    Request("textDocument/codeAction", "CodeActionParams",
            OneOf(<<Vector(OneOf(<<Ref("Command"), Ref("CodeAction")>>)), Null>>), Void)
CodeActionResolveRequest == Request("codeAction/resolve", "CodeAction", Ref("CodeAction"), Void)
WorkspaceSymbolRequest ==
    Request("workspace/symbol", "WorkspaceSymbolParams",
            OneOf(<<Vector(Ref("SymbolInformation")), Vector(Ref("WorkspaceSymbol")), Null>>),
            Void)
WorkspaceSymbolResolveRequest ==
    Request("workspaceSymbol/resolve", "WorkspaceSymbol", Ref("WorkspaceSymbol"), Void)
TextDocumentCodeLensRequest ==
    Request("textDocument/codeLens", "CodeLensParams", OneOf(<<Vector(Ref("CodeLens")), Null>>),
            Void)
CodeLensResolveRequest == Request("codeLens/resolve", "CodeLens", Ref("CodeLens"), Void)
WorkspaceCodeLensRefreshRequest == Request("workspace/codeLens/refresh", NoParams, Null, Void)
TextDocumentDocumentLinkRequest ==
    Request("textDocument/documentLink", "DocumentLinkParams",
            OneOf(<<Vector(Ref("DocumentLink")), Null>>), Void)
DocumentLinkResolveRequest ==
    Request("documentLink/resolve", "DocumentLink", Ref("DocumentLink"), Void)
TextDocumentFormattingRequest ==
    Request("textDocument/formatting", "DocumentFormattingParams",
            OneOf(<<Vector(Ref("TextEdit")), Null>>), Void)
TextDocumentRangeFormattingRequest ==
    Request("textDocument/rangeFormatting", "DocumentRangeFormattingParams",
            OneOf(<<Vector(Ref("TextEdit")), Null>>), Void)
TextDocumentRangesFormattingRequest ==
    Request("textDocument/rangesFormatting", "DocumentRangesFormattingParams",
            OneOf(<<Vector(Ref("TextEdit")), Null>>), Void)
TextDocumentOnTypeFormattingRequest ==
    Request("textDocument/onTypeFormatting", "DocumentOnTypeFormattingParams",
            OneOf(<<Vector(Ref("TextEdit")), Null>>), Void)
TextDocumentRenameRequest ==
    Request("textDocument/rename", "RenameParams", OneOf(<<Ref("WorkspaceEdit"), Null>>), Void)
TextDocumentPrepareRenameRequest ==
    Request("textDocument/prepareRename", "PrepareRenameParams",
            OneOf(<<Ref("PrepareRenameResult"), Null>>), Void)
WorkspaceExecuteCommandRequest ==
    Request("workspace/executeCommand", "ExecuteCommandParams", OneOf(<<Ref("LSPAny"), Null>>),
            Void)
WorkspaceApplyEditRequest ==
    Request("workspace/applyEdit", "ApplyWorkspaceEditParams", Ref("ApplyWorkspaceEditResult"),
            Void)
WorkspaceDidChangeWorkspaceFoldersNotification ==
    Notification("workspace/didChangeWorkspaceFolders", "DidChangeWorkspaceFoldersParams")
WindowWorkDoneProgressCancelNotification ==
    Notification("window/workDoneProgress/cancel", "WorkDoneProgressCancelParams")
WorkspaceDidCreateFilesNotification ==
    Notification("workspace/didCreateFiles", "CreateFilesParams")
WorkspaceDidRenameFilesNotification ==
    Notification("workspace/didRenameFiles", "RenameFilesParams")
WorkspaceDidDeleteFilesNotification ==
    Notification("workspace/didDeleteFiles", "DeleteFilesParams")
NotebookDocumentDidOpenNotification ==
    Notification("notebookDocument/didOpen", "DidOpenNotebookDocumentParams")
NotebookDocumentDidChangeNotification ==
    Notification("notebookDocument/didChange", "DidChangeNotebookDocumentParams")
NotebookDocumentDidSaveNotification ==
    Notification("notebookDocument/didSave", "DidSaveNotebookDocumentParams")
NotebookDocumentDidCloseNotification ==
    Notification("notebookDocument/didClose", "DidCloseNotebookDocumentParams")
InitializedNotification == Notification("initialized", "InitializedParams")
ExitNotification == Notification("exit", NoParams)
WorkspaceDidChangeConfigurationNotification ==
    Notification("workspace/didChangeConfiguration", "DidChangeConfigurationParams")
WindowShowMessageNotification == Notification("window/showMessage", "ShowMessageParams")
WindowLogMessageNotification == Notification("window/logMessage", "LogMessageParams")
TelemetryEventNotification == Notification("telemetry/event", "LSPAny")
TextDocumentDidOpenNotification ==
    Notification("textDocument/didOpen", "DidOpenTextDocumentParams")
TextDocumentDidChangeNotification ==
    Notification("textDocument/didChange", "DidChangeTextDocumentParams")
TextDocumentDidCloseNotification ==
    Notification("textDocument/didClose", "DidCloseTextDocumentParams")
TextDocumentDidSaveNotification ==
    Notification("textDocument/didSave", "DidSaveTextDocumentParams")
TextDocumentWillSaveNotification ==
    Notification("textDocument/willSave", "WillSaveTextDocumentParams")
WorkspaceDidChangeWatchedFilesNotification ==
    Notification("workspace/didChangeWatchedFiles", "DidChangeWatchedFilesParams")
TextDocumentPublishDiagnosticsNotification ==
    Notification("textDocument/publishDiagnostics", "PublishDiagnosticsParams")
SetTraceNotification == Notification("$/setTrace", "SetTraceParams")
LogTraceNotification == Notification("$/logTrace", "LogTraceParams")
CancelRequestNotification == Notification("$/cancelRequest", "CancelParams")
ProgressNotification == Notification("$/progress", "ProgressParams")

Requests == {
    TextDocumentImplementationRequest, TextDocumentTypeDefinitionRequest,
    WorkspaceWorkspaceFoldersRequest, WorkspaceConfigurationRequest,
    TextDocumentDocumentColorRequest, TextDocumentColorPresentationRequest,
    TextDocumentFoldingRangeRequest, WorkspaceFoldingRangeRefreshRequest,
    TextDocumentDeclarationRequest, TextDocumentSelectionRangeRequest,
    WindowWorkDoneProgressCreateRequest, TextDocumentPrepareCallHierarchyRequest,
    CallHierarchyIncomingCallsRequest, CallHierarchyOutgoingCallsRequest,
    TextDocumentSemanticTokensFullRequest, TextDocumentSemanticTokensFullDeltaRequest,
    TextDocumentSemanticTokensRangeRequest, WorkspaceSemanticTokensRefreshRequest,
    WindowShowDocumentRequest, TextDocumentLinkedEditingRangeRequest,
    WorkspaceWillCreateFilesRequest, WorkspaceWillRenameFilesRequest,
    WorkspaceWillDeleteFilesRequest, TextDocumentMonikerRequest,
    TextDocumentPrepareTypeHierarchyRequest, TypeHierarchySupertypesRequest,
    TypeHierarchySubtypesRequest, TextDocumentInlineValueRequest,
    WorkspaceInlineValueRefreshRequest, TextDocumentInlayHintRequest, InlayHintResolveRequest,
    WorkspaceInlayHintRefreshRequest, TextDocumentDiagnosticRequest, WorkspaceDiagnosticRequest,
    WorkspaceDiagnosticRefreshRequest, TextDocumentInlineCompletionRequest,
    ClientRegisterCapabilityRequest, ClientUnregisterCapabilityRequest, InitializeRequest,
    ShutdownRequest, WindowShowMessageRequestRequest, TextDocumentWillSaveWaitUntilRequest,
    TextDocumentCompletionRequest, CompletionItemResolveRequest, TextDocumentHoverRequest,
    TextDocumentSignatureHelpRequest, TextDocumentDefinitionRequest, TextDocumentReferencesRequest,
    TextDocumentDocumentHighlightRequest, TextDocumentDocumentSymbolRequest,
    TextDocumentCodeActionRequest, CodeActionResolveRequest, WorkspaceSymbolRequest,
    WorkspaceSymbolResolveRequest, TextDocumentCodeLensRequest, CodeLensResolveRequest,
    WorkspaceCodeLensRefreshRequest, TextDocumentDocumentLinkRequest, DocumentLinkResolveRequest,
    TextDocumentFormattingRequest, TextDocumentRangeFormattingRequest,
    TextDocumentRangesFormattingRequest, TextDocumentOnTypeFormattingRequest,
    TextDocumentRenameRequest, TextDocumentPrepareRenameRequest, WorkspaceExecuteCommandRequest,
    WorkspaceApplyEditRequest}

Notifications == {
    WorkspaceDidChangeWorkspaceFoldersNotification, WindowWorkDoneProgressCancelNotification,
    WorkspaceDidCreateFilesNotification, WorkspaceDidRenameFilesNotification,
    WorkspaceDidDeleteFilesNotification, NotebookDocumentDidOpenNotification,
    NotebookDocumentDidChangeNotification, NotebookDocumentDidSaveNotification,
    NotebookDocumentDidCloseNotification, InitializedNotification, ExitNotification,
    WorkspaceDidChangeConfigurationNotification, WindowShowMessageNotification,
    WindowLogMessageNotification, TelemetryEventNotification, TextDocumentDidOpenNotification,
    TextDocumentDidChangeNotification, TextDocumentDidCloseNotification,
    TextDocumentDidSaveNotification, TextDocumentWillSaveNotification,
    WorkspaceDidChangeWatchedFilesNotification, TextDocumentPublishDiagnosticsNotification,
    SetTraceNotification, LogTraceNotification, CancelRequestNotification, ProgressNotification}

===============================================================================
