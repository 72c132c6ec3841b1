-------------------------- MODULE LspCapabilities ---------------------------
(***************************************************************************)
(* The structures of src/lsp/lsp.cc that follow those of LspFeatures:      *)
(* registration, what clients and servers can do, initialization and       *)
(* configuration.                                                          *)
(***************************************************************************)
EXTENDS LspTypes

Registration == Struct(<<Req("id", String), Req("method", String),
                         Opt("registerOptions", Ref("LSPAny"))>>)
RegistrationParams == Struct(<<Req("registrations", Vector(Ref("Registration")))>>)
Unregistration == Struct(<<Req("id", String), Req("method", String)>>)
UnregistrationParams == Struct(<<Req("unregisterations", Vector(Ref("Unregistration")))>>)
ClientInfo == Struct(<<Req("name", String), Opt("version", String)>>)
ChangeAnnotationsSupportOptions == Struct(<<Opt("groupsOnLabel", Boolean)>>)
WorkspaceEditClientCapabilities ==
    Struct(<<Opt("documentChanges", Boolean),
             Opt("resourceOperations", Vector(Ref("ResourceOperationKind"))),
             Opt("failureHandling", Ref("FailureHandlingKind")),
             Opt("normalizesLineEndings", Boolean),
             Opt("changeAnnotationSupport", Ref("ChangeAnnotationsSupportOptions"))>>)
DidChangeConfigurationClientCapabilities == Struct(<<Opt("dynamicRegistration", Boolean)>>)
DidChangeWatchedFilesClientCapabilities ==
    Struct(<<Opt("dynamicRegistration", Boolean), Opt("relativePatternSupport", Boolean)>>)
ClientSymbolKindOptions == Struct(<<Opt("valueSet", Vector(Ref("SymbolKind")))>>)
ClientSymbolTagOptions == Struct(<<Req("valueSet", Vector(Ref("SymbolTag")))>>)
ClientSymbolResolveOptions == Struct(<<Req("properties", Vector(String))>>)
WorkspaceSymbolClientCapabilities ==
    Struct(<<Opt("dynamicRegistration", Boolean),
             Opt("symbolKind", Ref("ClientSymbolKindOptions")),
             Opt("tagSupport", Ref("ClientSymbolTagOptions")),
             Opt("resolveSupport", Ref("ClientSymbolResolveOptions"))>>)
ExecuteCommandClientCapabilities == Struct(<<Opt("dynamicRegistration", Boolean)>>)
SemanticTokensWorkspaceClientCapabilities == Struct(<<Opt("refreshSupport", Boolean)>>)
CodeLensWorkspaceClientCapabilities == Struct(<<Opt("refreshSupport", Boolean)>>)
FileOperationClientCapabilities ==
    Struct(<<Opt("dynamicRegistration", Boolean), Opt("didCreate", Boolean),
             Opt("willCreate", Boolean), Opt("didRename", Boolean), Opt("willRename", Boolean),
             Opt("didDelete", Boolean), Opt("willDelete", Boolean)>>)
InlineValueWorkspaceClientCapabilities == Struct(<<Opt("refreshSupport", Boolean)>>)
InlayHintWorkspaceClientCapabilities == Struct(<<Opt("refreshSupport", Boolean)>>)
DiagnosticWorkspaceClientCapabilities == Struct(<<Opt("refreshSupport", Boolean)>>)
FoldingRangeWorkspaceClientCapabilities == Struct(<<Opt("refreshSupport", Boolean)>>)
WorkspaceClientCapabilities ==
    Struct(<<Opt("applyEdit", Boolean),
             Opt("workspaceEdit", Ref("WorkspaceEditClientCapabilities")),
             Opt("didChangeConfiguration", Ref("DidChangeConfigurationClientCapabilities")),
             Opt("didChangeWatchedFiles", Ref("DidChangeWatchedFilesClientCapabilities")),
             Opt("symbol", Ref("WorkspaceSymbolClientCapabilities")),
             Opt("executeCommand", Ref("ExecuteCommandClientCapabilities")),
             Opt("workspaceFolders", Boolean), Opt("configuration", Boolean),
             Opt("semanticTokens", Ref("SemanticTokensWorkspaceClientCapabilities")),
             Opt("codeLens", Ref("CodeLensWorkspaceClientCapabilities")),
             Opt("fileOperations", Ref("FileOperationClientCapabilities")),
             Opt("inlineValue", Ref("InlineValueWorkspaceClientCapabilities")),
             Opt("inlayHint", Ref("InlayHintWorkspaceClientCapabilities")),
             Opt("diagnostics", Ref("DiagnosticWorkspaceClientCapabilities")),
             Opt("foldingRange", Ref("FoldingRangeWorkspaceClientCapabilities"))>>)
TextDocumentSyncClientCapabilities ==
    Struct(<<Opt("dynamicRegistration", Boolean), Opt("willSave", Boolean),
             Opt("willSaveWaitUntil", Boolean), Opt("didSave", Boolean)>>)
CompletionItemTagOptions == Struct(<<Req("valueSet", Vector(Ref("CompletionItemTag")))>>)
ClientCompletionItemResolveOptions == Struct(<<Req("properties", Vector(String))>>)
ClientCompletionItemInsertTextModeOptions ==
    Struct(<<Req("valueSet", Vector(Ref("InsertTextMode")))>>)
ClientCompletionItemOptions ==
    Struct(<<Opt("snippetSupport", Boolean), Opt("commitCharactersSupport", Boolean),
             Opt("documentationFormat", Vector(Ref("MarkupKind"))),
             Opt("deprecatedSupport", Boolean), Opt("preselectSupport", Boolean),
             Opt("tagSupport", Ref("CompletionItemTagOptions")),
             Opt("insertReplaceSupport", Boolean),
             Opt("resolveSupport", Ref("ClientCompletionItemResolveOptions")),
             Opt("insertTextModeSupport", Ref("ClientCompletionItemInsertTextModeOptions")),
             Opt("labelDetailsSupport", Boolean)>>)
ClientCompletionItemOptionsKind == Struct(<<Opt("valueSet", Vector(Ref("CompletionItemKind")))>>)
CompletionListCapabilities == Struct(<<Opt("itemDefaults", Vector(String))>>)
CompletionClientCapabilities ==
    Struct(<<Opt("dynamicRegistration", Boolean),
             Opt("completionItem", Ref("ClientCompletionItemOptions")),
             Opt("completionItemKind", Ref("ClientCompletionItemOptionsKind")),
             Opt("insertTextMode", Ref("InsertTextMode")), Opt("contextSupport", Boolean),
             Opt("completionList", Ref("CompletionListCapabilities"))>>)
HoverClientCapabilities ==
    Struct(<<Opt("dynamicRegistration", Boolean),
             Opt("contentFormat", Vector(Ref("MarkupKind")))>>)
ClientSignatureParameterInformationOptions == Struct(<<Opt("labelOffsetSupport", Boolean)>>)
ClientSignatureInformationOptions ==
    Struct(<<Opt("documentationFormat", Vector(Ref("MarkupKind"))),
             Opt("parameterInformation", Ref("ClientSignatureParameterInformationOptions")),
             Opt("activeParameterSupport", Boolean)>>)
SignatureHelpClientCapabilities ==
    Struct(<<Opt("dynamicRegistration", Boolean),
             Opt("signatureInformation", Ref("ClientSignatureInformationOptions")),
             Opt("contextSupport", Boolean)>>)
DeclarationClientCapabilities ==
    Struct(<<Opt("dynamicRegistration", Boolean), Opt("linkSupport", Boolean)>>)
DefinitionClientCapabilities ==
    Struct(<<Opt("dynamicRegistration", Boolean), Opt("linkSupport", Boolean)>>)
TypeDefinitionClientCapabilities ==
    Struct(<<Opt("dynamicRegistration", Boolean), Opt("linkSupport", Boolean)>>)
ImplementationClientCapabilities ==
    Struct(<<Opt("dynamicRegistration", Boolean), Opt("linkSupport", Boolean)>>)
ReferenceClientCapabilities == Struct(<<Opt("dynamicRegistration", Boolean)>>)
DocumentHighlightClientCapabilities == Struct(<<Opt("dynamicRegistration", Boolean)>>)
DocumentSymbolClientCapabilities ==
    Struct(<<Opt("dynamicRegistration", Boolean),
             Opt("symbolKind", Ref("ClientSymbolKindOptions")),
             Opt("hierarchicalDocumentSymbolSupport", Boolean),
             Opt("tagSupport", Ref("ClientSymbolTagOptions")), Opt("labelSupport", Boolean)>>)
ClientCodeActionKindOptions == Struct(<<Req("valueSet", Vector(Ref("CodeActionKind")))>>)
ClientCodeActionLiteralOptions ==
    Struct(<<Req("codeActionKind", Ref("ClientCodeActionKindOptions"))>>)
ClientCodeActionResolveOptions == Struct(<<Req("properties", Vector(String))>>)
CodeActionClientCapabilities ==
    Struct(<<Opt("dynamicRegistration", Boolean),
             Opt("codeActionLiteralSupport", Ref("ClientCodeActionLiteralOptions")),
             Opt("isPreferredSupport", Boolean), Opt("disabledSupport", Boolean),
             Opt("dataSupport", Boolean),
             Opt("resolveSupport", Ref("ClientCodeActionResolveOptions")),
             Opt("honorsChangeAnnotations", Boolean)>>)
CodeLensClientCapabilities == Struct(<<Opt("dynamicRegistration", Boolean)>>)
DocumentLinkClientCapabilities ==
    Struct(<<Opt("dynamicRegistration", Boolean), Opt("tooltipSupport", Boolean)>>)
DocumentColorClientCapabilities == Struct(<<Opt("dynamicRegistration", Boolean)>>)
DocumentFormattingClientCapabilities == Struct(<<Opt("dynamicRegistration", Boolean)>>)
DocumentRangeFormattingClientCapabilities ==
    Struct(<<Opt("dynamicRegistration", Boolean), Opt("rangesSupport", Boolean)>>)
DocumentOnTypeFormattingClientCapabilities == Struct(<<Opt("dynamicRegistration", Boolean)>>)
RenameClientCapabilities ==
    Struct(<<Opt("dynamicRegistration", Boolean), Opt("prepareSupport", Boolean),
             Opt("prepareSupportDefaultBehavior", Ref("PrepareSupportDefaultBehavior")),
             Opt("honorsChangeAnnotations", Boolean)>>)
ClientFoldingRangeKindOptions == Struct(<<Opt("valueSet", Vector(Ref("FoldingRangeKind")))>>)
ClientFoldingRangeOptions == Struct(<<Opt("collapsedText", Boolean)>>)
FoldingRangeClientCapabilities ==
    Struct(<<Opt("dynamicRegistration", Boolean), Opt("rangeLimit", Uinteger),
             Opt("lineFoldingOnly", Boolean),
             Opt("foldingRangeKind", Ref("ClientFoldingRangeKindOptions")),
             Opt("foldingRange", Ref("ClientFoldingRangeOptions"))>>)
SelectionRangeClientCapabilities == Struct(<<Opt("dynamicRegistration", Boolean)>>)
ClientDiagnosticsTagOptions == Struct(<<Req("valueSet", Vector(Ref("DiagnosticTag")))>>)
PublishDiagnosticsClientCapabilities ==
    Struct(<<Opt("relatedInformation", Boolean),
             Opt("tagSupport", Ref("ClientDiagnosticsTagOptions")),
             Opt("versionSupport", Boolean), Opt("codeDescriptionSupport", Boolean),
             Opt("dataSupport", Boolean)>>)
CallHierarchyClientCapabilities == Struct(<<Opt("dynamicRegistration", Boolean)>>)
ClientSemanticTokensRequestFullDelta == Struct(<<Opt("delta", Boolean)>>)
ClientSemanticTokensRequestOptions ==
    Struct(<<Opt("range", OneOf(<<Boolean, Ref("ClientSemanticTokensRequestOptions_Range")>>)),
             Opt("full", OneOf(<<Boolean, Ref("ClientSemanticTokensRequestFullDelta")>>))>>)
ClientSemanticTokensRequestOptions_Range == Struct(<<>>)
SemanticTokensClientCapabilities ==
    Struct(<<Opt("dynamicRegistration", Boolean),
             Req("requests", Ref("ClientSemanticTokensRequestOptions")),
             Req("tokenTypes", Vector(String)), Req("tokenModifiers", Vector(String)),
             Req("formats", Vector(Ref("TokenFormat"))), Opt("overlappingTokenSupport", Boolean),
             Opt("multilineTokenSupport", Boolean), Opt("serverCancelSupport", Boolean),
             Opt("augmentsSyntaxTokens", Boolean)>>)
LinkedEditingRangeClientCapabilities == Struct(<<Opt("dynamicRegistration", Boolean)>>)
MonikerClientCapabilities == Struct(<<Opt("dynamicRegistration", Boolean)>>)
TypeHierarchyClientCapabilities == Struct(<<Opt("dynamicRegistration", Boolean)>>)
InlineValueClientCapabilities == Struct(<<Opt("dynamicRegistration", Boolean)>>)
ClientInlayHintResolveOptions == Struct(<<Req("properties", Vector(String))>>)
InlayHintClientCapabilities ==
    Struct(<<Opt("dynamicRegistration", Boolean),
             Opt("resolveSupport", Ref("ClientInlayHintResolveOptions"))>>)
DiagnosticClientCapabilities ==
    Struct(<<Opt("dynamicRegistration", Boolean), Opt("relatedDocumentSupport", Boolean)>>)
InlineCompletionClientCapabilities == Struct(<<Opt("dynamicRegistration", Boolean)>>)
TextDocumentClientCapabilities ==
    Struct(<<Opt("synchronization", Ref("TextDocumentSyncClientCapabilities")),
             Opt("completion", Ref("CompletionClientCapabilities")),
             Opt("hover", Ref("HoverClientCapabilities")),
             Opt("signatureHelp", Ref("SignatureHelpClientCapabilities")),
             Opt("declaration", Ref("DeclarationClientCapabilities")),
             Opt("definition", Ref("DefinitionClientCapabilities")),
             Opt("typeDefinition", Ref("TypeDefinitionClientCapabilities")),
             Opt("implementation", Ref("ImplementationClientCapabilities")),
             Opt("references", Ref("ReferenceClientCapabilities")),
             Opt("documentHighlight", Ref("DocumentHighlightClientCapabilities")),
             Opt("documentSymbol", Ref("DocumentSymbolClientCapabilities")),
             Opt("codeAction", Ref("CodeActionClientCapabilities")),
             Opt("codeLens", Ref("CodeLensClientCapabilities")),
             Opt("documentLink", Ref("DocumentLinkClientCapabilities")),
             Opt("colorProvider", Ref("DocumentColorClientCapabilities")),
             Opt("formatting", Ref("DocumentFormattingClientCapabilities")),
             Opt("rangeFormatting", Ref("DocumentRangeFormattingClientCapabilities")),
             Opt("onTypeFormatting", Ref("DocumentOnTypeFormattingClientCapabilities")),
             Opt("rename", Ref("RenameClientCapabilities")),
             Opt("foldingRange", Ref("FoldingRangeClientCapabilities")),
             Opt("selectionRange", Ref("SelectionRangeClientCapabilities")),
             Opt("publishDiagnostics", Ref("PublishDiagnosticsClientCapabilities")),
             Opt("callHierarchy", Ref("CallHierarchyClientCapabilities")),
             Opt("semanticTokens", Ref("SemanticTokensClientCapabilities")),
             Opt("linkedEditingRange", Ref("LinkedEditingRangeClientCapabilities")),
             Opt("moniker", Ref("MonikerClientCapabilities")),
             Opt("typeHierarchy", Ref("TypeHierarchyClientCapabilities")),
             Opt("inlineValue", Ref("InlineValueClientCapabilities")),
             Opt("inlayHint", Ref("InlayHintClientCapabilities")),
             Opt("diagnostic", Ref("DiagnosticClientCapabilities")),
             Opt("inlineCompletion", Ref("InlineCompletionClientCapabilities"))>>)
NotebookDocumentSyncClientCapabilities ==
    Struct(<<Opt("dynamicRegistration", Boolean), Opt("executionSummarySupport", Boolean)>>)
NotebookDocumentClientCapabilities ==
    Struct(<<Req("synchronization", Ref("NotebookDocumentSyncClientCapabilities"))>>)
ClientShowMessageActionItemOptions == Struct(<<Opt("additionalPropertiesSupport", Boolean)>>)
ShowMessageRequestClientCapabilities ==
    Struct(<<Opt("messageActionItem", Ref("ClientShowMessageActionItemOptions"))>>)
ShowDocumentClientCapabilities == Struct(<<Req("support", Boolean)>>)
WindowClientCapabilities ==
    Struct(<<Opt("workDoneProgress", Boolean),
             Opt("showMessage", Ref("ShowMessageRequestClientCapabilities")),
             Opt("showDocument", Ref("ShowDocumentClientCapabilities"))>>)
StaleRequestSupportOptions ==
    Struct(<<Req("cancel", Boolean), Req("retryOnContentModified", Vector(String))>>)
RegularExpressionsClientCapabilities == Struct(<<Req("engine", String), Opt("version", String)>>)
MarkdownClientCapabilities ==
    Struct(<<Req("parser", String), Opt("version", String), Opt("allowedTags", Vector(String))>>)
GeneralClientCapabilities ==
    Struct(<<Opt("staleRequestSupport", Ref("StaleRequestSupportOptions")),
             Opt("regularExpressions", Ref("RegularExpressionsClientCapabilities")),
             Opt("markdown", Ref("MarkdownClientCapabilities")),
             Opt("positionEncodings", Vector(Ref("PositionEncodingKind")))>>)
ClientCapabilities == Struct(<<Opt("workspace", Ref("WorkspaceClientCapabilities")),
                               Opt("textDocument", Ref("TextDocumentClientCapabilities")),
                               Opt("notebookDocument", Ref("NotebookDocumentClientCapabilities")),
                               Opt("window", Ref("WindowClientCapabilities")),
                               Opt("general", Ref("GeneralClientCapabilities")),
                               Opt("experimental", Ref("LSPAny"))>>)
InitializeParamsBase ==
    Struct(<<Req("processId", OneOf(<<Integer, Null>>)), Opt("clientInfo", Ref("ClientInfo")),
             Opt("locale", String), Opt("rootPath", OneOf(<<String, Null>>)),
             Req("rootUri", OneOf(<<DocumentUri, Null>>)),
             Req("capabilities", Ref("ClientCapabilities")),
             Opt("initializationOptions", Ref("LSPAny")), Opt("trace", Ref("TraceValues"))>>)
WorkspaceFoldersInitializeParams ==
    Struct(<<Opt("workspaceFolders", OneOf(<<Vector(Ref("WorkspaceFolder")), Null>>))>>)
InitializeParams == Derived(<<"InitializeParamsBase", "WorkspaceFoldersInitializeParams">>, <<>>)
SaveOptions == Struct(<<Opt("includeText", Boolean)>>)
TextDocumentSyncOptions ==
    Struct(<<Opt("openClose", Boolean), Opt("change", Ref("TextDocumentSyncKind")),
             Opt("willSave", Boolean), Opt("willSaveWaitUntil", Boolean),
             Opt("save", OneOf(<<Boolean, Ref("SaveOptions")>>))>>)
NotebookCellLanguage == Struct(<<Req("language", String)>>)
NotebookDocumentFilterWithCells ==
    Struct(<<Opt("notebook", OneOf(<<String, Ref("NotebookDocumentFilter")>>)),
             Req("cells", Vector(Ref("NotebookCellLanguage")))>>)
NotebookDocumentFilterWithNotebook ==
    Struct(<<Req("notebook", OneOf(<<String, Ref("NotebookDocumentFilter")>>)),
             Opt("cells", Vector(Ref("NotebookCellLanguage")))>>)
NotebookDocumentSyncOptions ==
    Struct(<<Req("notebookSelector",
                 Vector(OneOf(<<Ref("NotebookDocumentFilterWithNotebook"),
                                Ref("NotebookDocumentFilterWithCells")>>))),
             Opt("save", Boolean)>>)
NotebookDocumentSyncRegistrationOptions == Derived(<<"NotebookDocumentSyncOptions">>, <<>>)
ServerCompletionItemOptions == Struct(<<Opt("labelDetailsSupport", Boolean)>>)
CompletionOptions == Struct(<<Opt("triggerCharacters", Vector(String)),
                              Opt("allCommitCharacters", Vector(String)),
                              Opt("resolveProvider", Boolean),
                              Opt("completionItem", Ref("ServerCompletionItemOptions"))>>)
HoverOptions == Struct(<<>>)
SignatureHelpOptions ==
    Struct(<<Opt("triggerCharacters", Vector(String)),
             Opt("retriggerCharacters", Vector(String))>>)
DefinitionOptions == Struct(<<>>)
ReferenceOptions == Struct(<<>>)
DocumentHighlightOptions == Struct(<<>>)
DocumentSymbolOptions == Struct(<<Opt("label", String)>>)
CodeActionOptions == Struct(<<Opt("codeActionKinds", Vector(Ref("CodeActionKind"))),
                              Opt("resolveProvider", Boolean)>>)
CodeLensOptions == Struct(<<Opt("resolveProvider", Boolean)>>)
DocumentLinkOptions == Struct(<<Opt("resolveProvider", Boolean)>>)
WorkspaceSymbolOptions == Struct(<<Opt("resolveProvider", Boolean)>>)
DocumentFormattingOptions == Struct(<<>>)
DocumentRangeFormattingOptions == Struct(<<Opt("rangesSupport", Boolean)>>)
DocumentOnTypeFormattingOptions ==
    Struct(<<Req("firstTriggerCharacter", String), Opt("moreTriggerCharacter", Vector(String))>>)
RenameOptions == Struct(<<Opt("prepareProvider", Boolean)>>)
ExecuteCommandOptions == Struct(<<Req("commands", Vector(String))>>)
WorkspaceFoldersServerCapabilities ==
    Struct(<<Opt("supported", Boolean), Opt("changeNotifications", OneOf(<<String, Boolean>>))>>)
FileOperationOptions ==
    Struct(<<Opt("didCreate", Ref("FileOperationRegistrationOptions")),
             Opt("willCreate", Ref("FileOperationRegistrationOptions")),
             Opt("didRename", Ref("FileOperationRegistrationOptions")),
             Opt("willRename", Ref("FileOperationRegistrationOptions")),
             Opt("didDelete", Ref("FileOperationRegistrationOptions")),
             Opt("willDelete", Ref("FileOperationRegistrationOptions"))>>)
WorkspaceOptions == Struct(<<Opt("workspaceFolders", Ref("WorkspaceFoldersServerCapabilities")),
                             Opt("fileOperations", Ref("FileOperationOptions"))>>)
ServerCapabilities == Struct(<<Opt("positionEncoding", Ref("PositionEncodingKind")),
                               Opt("textDocumentSync",
                                   OneOf(<<Ref("TextDocumentSyncOptions"),
                                           Ref("TextDocumentSyncKind")>>)),
                               Opt("notebookDocumentSync",
                                   OneOf(<<Ref("NotebookDocumentSyncOptions"),
                                           Ref("NotebookDocumentSyncRegistrationOptions")>>)),
                               Opt("completionProvider", Ref("CompletionOptions")),
                               Opt("hoverProvider", OneOf(<<Boolean, Ref("HoverOptions")>>)),
                               Opt("signatureHelpProvider", Ref("SignatureHelpOptions")),
                               Opt("declarationProvider",
                                   OneOf(<<Boolean, Ref("DeclarationOptions"),
                                           Ref("DeclarationRegistrationOptions")>>)),
                               Opt("definitionProvider",
                                   OneOf(<<Boolean, Ref("DefinitionOptions")>>)),
                               Opt("typeDefinitionProvider",
                                   OneOf(<<Boolean, Ref("TypeDefinitionOptions"),
                                           Ref("TypeDefinitionRegistrationOptions")>>)),
                               Opt("implementationProvider",
                                   OneOf(<<Boolean, Ref("ImplementationOptions"),
                                           Ref("ImplementationRegistrationOptions")>>)),
                               Opt("referencesProvider",
                                   OneOf(<<Boolean, Ref("ReferenceOptions")>>)),
                               Opt("documentHighlightProvider",
                                   OneOf(<<Boolean, Ref("DocumentHighlightOptions")>>)),
                               Opt("documentSymbolProvider",
                                   OneOf(<<Boolean, Ref("DocumentSymbolOptions")>>)),
                               Opt("codeActionProvider",
                                   OneOf(<<Boolean, Ref("CodeActionOptions")>>)),
                               Opt("codeLensProvider", Ref("CodeLensOptions")),
                               Opt("documentLinkProvider", Ref("DocumentLinkOptions")),
                               Opt("colorProvider",
                                   OneOf(<<Boolean, Ref("DocumentColorOptions"),
                                           Ref("DocumentColorRegistrationOptions")>>)),
                               Opt("workspaceSymbolProvider",
                                   OneOf(<<Boolean, Ref("WorkspaceSymbolOptions")>>)),
                               Opt("documentFormattingProvider",
                                   OneOf(<<Boolean, Ref("DocumentFormattingOptions")>>)),
                               Opt("documentRangeFormattingProvider",
                                   OneOf(<<Boolean, Ref("DocumentRangeFormattingOptions")>>)),
                               Opt("documentOnTypeFormattingProvider",
                                   Ref("DocumentOnTypeFormattingOptions")),
                               Opt("renameProvider", OneOf(<<Boolean, Ref("RenameOptions")>>)),
                               Opt("foldingRangeProvider",
                                   OneOf(<<Boolean, Ref("FoldingRangeOptions"),
                                           Ref("FoldingRangeRegistrationOptions")>>)),
                               Opt("selectionRangeProvider",
                                   OneOf(<<Boolean, Ref("SelectionRangeOptions"),
                                           Ref("SelectionRangeRegistrationOptions")>>)),
                               Opt("executeCommandProvider", Ref("ExecuteCommandOptions")),
                               Opt("callHierarchyProvider",
                                   OneOf(<<Boolean, Ref("CallHierarchyOptions"),
                                           Ref("CallHierarchyRegistrationOptions")>>)),
                               Opt("linkedEditingRangeProvider",
                                   OneOf(<<Boolean, Ref("LinkedEditingRangeOptions"),
                                           Ref("LinkedEditingRangeRegistrationOptions")>>)),
                               Opt("semanticTokensProvider",
                                   OneOf(<<Ref("SemanticTokensOptions"),
                                           Ref("SemanticTokensRegistrationOptions")>>)),
                               Opt("monikerProvider",
                                   OneOf(<<Boolean, Ref("MonikerOptions"),
                                           Ref("MonikerRegistrationOptions")>>)),
                               Opt("typeHierarchyProvider",
                                   OneOf(<<Boolean, Ref("TypeHierarchyOptions"),
                                           Ref("TypeHierarchyRegistrationOptions")>>)),
                               Opt("inlineValueProvider",
                                   OneOf(<<Boolean, Ref("InlineValueOptions"),
                                           Ref("InlineValueRegistrationOptions")>>)),
                               Opt("inlayHintProvider",
                                   OneOf(<<Boolean, Ref("InlayHintOptions"),
                                           Ref("InlayHintRegistrationOptions")>>)),
                               Opt("diagnosticProvider",
                                   OneOf(<<Ref("DiagnosticOptions"),
                                           Ref("DiagnosticRegistrationOptions")>>)),
                               Opt("inlineCompletionProvider",
                                   OneOf(<<Boolean, Ref("InlineCompletionOptions")>>)),
                               Opt("workspace", Ref("WorkspaceOptions")),
                               Opt("experimental", Ref("LSPAny"))>>)
ServerInfo == Struct(<<Req("name", String), Opt("version", String)>>)
InitializeResult == Struct(<<Req("capabilities", Ref("ServerCapabilities")),
                             Opt("serverInfo", Ref("ServerInfo"))>>)
InitializeError == Struct(<<Req("retry", Boolean)>>)
InitializedParams == Struct(<<>>)
DidChangeConfigurationParams == Struct(<<Req("settings", Ref("LSPAny"))>>)
DidChangeConfigurationRegistrationOptions ==
    Struct(<<Opt("section", OneOf(<<String, Vector(String)>>))>>)

=============================================================================
